---- MODULE Spec2Model ----
(***************************************************************************)
(* Graph repository backends of ai_dev_graph: the embedded backend         *)
(* (NetworkXSQLiteRepository: an in-memory nx.DiGraph mirrored to the      *)
(* SQLite GraphDatabase), the external graph database backend              *)
(* (Neo4jRepository) and the hybrid backend (HybridRepository: SQLite for  *)
(* content, Neo4j for structure).  One repository instance is active; the  *)
(* variable backend says which one settings.database_type selected, and   *)
(* the variable factory holds the singleton of persistence_factory.py.     *)
(***************************************************************************)
EXTENDS Integers, Sequences, FiniteSets, Bags, TLC

VARIABLES backend, graph, db, neo4j, factory, waterfall, migration, calls

vars == <<backend, graph, db, neo4j, factory, waterfall, migration, calls>>

(***************************************************************************)
(* Bounds of the model.                                                    *)
(***************************************************************************)
MaxMetaValue == 2
MaxFilterLen == 1
MaxParents == 2
MaxDepth == 2
MaxInstances == 3
MaxPaths == 2
MaxLimit == 3
MaxHistory == 7
MaxNotes == 1
MaxEdgeRows == 2

Ids == {"a", "b"}
MetaKeys == {"k1", "k2"}
MetaValues == 1..MaxMetaValue
TypeInputs == {"project", "concept"}
ContentInputs == {<<"b">>, <<"b", "A">>}
FilterAlphabet == {"a", "b", "_"}

(***************************************************************************)
(* Optional values: None, or Some(x).                                      *)
(***************************************************************************)
None == <<>>
Some(x) == <<x>>
IsNone(o) == o = <<>>
Val(o) == o[1]

(***************************************************************************)
(* Python dictionaries: functions over a finite set of keys.               *)
(***************************************************************************)
EmptyDict == <<>>
Put(d, k, v) == [x \in DOMAIN d \cup {k} |-> IF x = k THEN v ELSE d[x]]
Pop(d, k) == [x \in DOMAIN d \ {k} |-> d[x]]
DictUpdate(d, e) == [x \in DOMAIN d \cup DOMAIN e |-> IF x \in DOMAIN e THEN e[x] ELSE d[x]]
DictGet(d, k, default) == IF k \in DOMAIN d THEN d[k] ELSE default

(***************************************************************************)
(* domain/models.py                                                        *)
(***************************************************************************)
NodeType == {"project", "concept", "rule", "guideline", "instruction", "resource", "test"}
DatabaseType == {"sqlite", "neo4j", "hybrid"}
NodeData(id, type, content, metadata) ==
    [id |-> id, type |-> type, content |-> content, metadata |-> metadata]

(***************************************************************************)
(* json.dumps / json.loads of a metadata mapping: the stores hold the      *)
(* serialized text, readers parse it back.                                 *)
(***************************************************************************)
JsonDumps(m) == [json |-> m]
JsonLoads(s) == s.json

(***************************************************************************)
(* str.lower, the `in` operator on strings, SQLite's LIKE.                 *)
(***************************************************************************)
LowerChar(c) == IF c = "A" THEN "a" ELSE IF c = "B" THEN "b" ELSE c
Lower(s) == [i \in 1..Len(s) |-> LowerChar(s[i])]
StrIn(sub, s) ==
    \E i \in 0..(Len(s) - Len(sub)) : SubSeq(s, i + 1, i + Len(sub)) = sub

RECURSIVE Like(_, _)
Like(s, pat) ==
    IF pat = <<>> THEN s = <<>>
    ELSE IF Head(pat) = "%" THEN Like(s, Tail(pat)) \/ (s # <<>> /\ Like(Tail(s), pat))
    ELSE IF Head(pat) = "_" THEN s # <<>> /\ Like(Tail(s), Tail(pat))
    ELSE /\ s # <<>>
         /\ LowerChar(Head(s)) = LowerChar(Head(pat))
         /\ Like(Tail(s), Tail(pat))

(***************************************************************************)
(* core/persistence.py: GraphDatabase.  The database is a record of two    *)
(* tables: nodes (PRIMARY KEY id) and edges (PRIMARY KEY (source,target)). *)
(* The connection never issues PRAGMA foreign_keys, so the FOREIGN KEY     *)
(* clauses of the edges table are not enforced.  Each operator returns the *)
(* database after the statement and the method's return value.  The field  *)
(* writable tells whether the connection accepts writes; when it does not  *)
(* (file locked, read-only or full), execute or commit raises inside the   *)
(* method's try block and Rollback is what the except branch leaves.       *)
(***************************************************************************)
Rollback(d) == [db |-> d, ret |-> FALSE]

(* Mutation: the INSERT leaves the metadata column to its default '{}'. *)
GraphDatabase_add_node_default_metadata(d, node_id, node_type, content, metadata) ==
    IF ~d.writable THEN Rollback(d) ELSE
    [db |-> [d EXCEPT !.nodes = Put(d.nodes, node_id,
                [id |-> node_id, type |-> node_type, content |-> content,
                 metadata |-> JsonDumps(EmptyDict)])],
     ret |-> TRUE]

GraphDatabase_add_node(d, node_id, node_type, content, metadata) ==
    IF ~d.writable THEN Rollback(d) ELSE
    [db |-> [d EXCEPT !.nodes = Put(d.nodes, node_id,
                [id |-> node_id, type |-> node_type, content |-> content,
                 metadata |-> JsonDumps(metadata)])],
     ret |-> TRUE]

GraphDatabase_add_edge(d, source, target) ==
    IF ~d.writable THEN Rollback(d) ELSE
    [db |-> [d EXCEPT !.edges = d.edges \cup {<<source, target>>}], ret |-> TRUE]

GraphDatabase_get_node(d, node_id) ==
    IF node_id \notin DOMAIN d.nodes THEN None
    ELSE LET row == d.nodes[node_id]
         IN  Some([id |-> row.id, type |-> row.type, content |-> row.content,
                   metadata |-> JsonLoads(row.metadata)])

GraphDatabase_get_all_nodes(d) ==
    {Val(GraphDatabase_get_node(d, i)) : i \in DOMAIN d.nodes}

GraphDatabase_get_all_edges(d) == d.edges

GraphDatabase_update_node(d, node_id, content, metadata) ==
    LET existing == GraphDatabase_get_node(d, node_id)
    IN  IF IsNone(existing) THEN [db |-> d, ret |-> FALSE]
        ELSE IF ~d.writable THEN Rollback(d)
        ELSE LET row0 == d.nodes[node_id]
                 row1 == IF ~IsNone(content)
                         THEN [row0 EXCEPT !.content = Val(content)] ELSE row0
                 row2 == IF ~IsNone(metadata)
                         THEN [row1 EXCEPT !.metadata =
                                  JsonDumps(DictUpdate(Val(existing).metadata, Val(metadata)))]
                         ELSE row1
             IN  [db |-> [d EXCEPT !.nodes = Put(d.nodes, node_id, row2)], ret |-> TRUE]

GraphDatabase_delete_node(d, node_id) ==
    IF ~d.writable THEN Rollback(d) ELSE
    [db |-> [d EXCEPT !.nodes = Pop(d.nodes, node_id)],
     ret |-> node_id \in DOMAIN d.nodes]

GraphDatabase_find_nodes(d, node_type, content_match) ==
    {i \in DOMAIN d.nodes :
        /\ (~IsNone(node_type) => d.nodes[i].type = Val(node_type))
        /\ ((~IsNone(content_match) /\ Val(content_match) # <<>>)
               => Like(d.nodes[i].content, <<"%">> \o Val(content_match) \o <<"%">>))}

GraphDatabase_get_statistics(d) ==
    [total_nodes |-> Cardinality(DOMAIN d.nodes),
     total_edges |-> Cardinality(d.edges),
     node_types |-> [t \in {d.nodes[i].type : i \in DOMAIN d.nodes} |->
                        Cardinality({i \in DOMAIN d.nodes : d.nodes[i].type = t})]]


(***************************************************************************)
(* nx.DiGraph as the repository uses it: a mapping from node id to its     *)
(* attribute dict, and a set of ordered pairs.                             *)
(***************************************************************************)
DiGraph == [nodes |-> EmptyDict, edges |-> {}]
DiGraph_has_node(g, n) == n \in DOMAIN g.nodes
DiGraph_add_node(g, n, attrs) ==
    [g EXCEPT !.nodes = Put(g.nodes, n, DictUpdate(DictGet(g.nodes, n, EmptyDict), attrs))]
DiGraph_add_edge(g, u, v) ==
    [nodes |-> [x \in DOMAIN g.nodes \cup {u, v} |-> DictGet(g.nodes, x, EmptyDict)],
     edges |-> g.edges \cup {<<u, v>>}]
DiGraph_remove_node(g, n) ==
    [nodes |-> Pop(g.nodes, n),
     edges |-> {e \in g.edges : e[1] # n /\ e[2] # n}]
DiGraph_predecessors(g, n) == {e[1] : e \in {x \in g.edges : x[2] = n}}
DiGraph_successors(g, n) == {e[2] : e \in {x \in g.edges : x[1] = n}}

(***************************************************************************)
(* A density is a rational number, kept as numerator and denominator.      *)
(***************************************************************************)
Ratio(n, d) == [num |-> n, den |-> d]
Zero == Ratio(0, 1)
RatioEq(x, y) == x.num * y.den = y.num * x.den

nx_density(g) ==
    LET n == Cardinality(DOMAIN g.nodes)
        m == Cardinality(g.edges)
    IN  IF m = 0 \/ n <= 1 THEN Zero ELSE Ratio(m, n * (n - 1))

(***************************************************************************)
(* A repository state: the three stores an instance may hold.              *)
(***************************************************************************)
State(g, d, n) == [graph |-> g, db |-> d, neo4j |-> n]
Result(s, r) == [st |-> s, ret |-> r]

(***************************************************************************)
(* infrastructure/networkx_repo.py: NetworkXSQLiteRepository               *)
(***************************************************************************)
ModelDump(node) ==
    [id |-> node.id, type |-> node.type, content |-> node.content, metadata |-> node.metadata]

(* __init__ and _load_from_db: the graph of a new instance over the        *)
(* durable store d.  Every row of nodes becomes a node carrying the row as *)
(* its data; every row of edges is added with graph.add_edge, which also   *)
(* creates an endpoint that is not yet a node.                             *)
NetworkX_load_from_db(d) ==
    LET rows == GraphDatabase_get_all_nodes(d)
        loaded == [i \in {r.id : r \in rows} |->
                      [data |-> CHOOSE r \in rows : r.id = i]]
        edges == GraphDatabase_get_all_edges(d)
    IN  [nodes |-> [x \in DOMAIN loaded \cup {e[1] : e \in edges} \cup {e[2] : e \in edges}
                       |-> DictGet(loaded, x, EmptyDict)],
         edges |-> edges]

NetworkX_add_node(st, node) ==
    Result([st EXCEPT
              !.graph = DiGraph_add_node(st.graph, node.id, [data |-> ModelDump(node)]),
              !.db = GraphDatabase_add_node(st.db, node.id, node.type, node.content,
                                            node.metadata).db],
           None)

(* Mutation: add_edge without the has_node guard. *)
NetworkX_add_edge_unguarded(st, source_id, target_id) ==
    Result([st EXCEPT
              !.graph = DiGraph_add_edge(st.graph, source_id, target_id),
              !.db = GraphDatabase_add_edge(st.db, source_id, target_id).db],
           None)

NetworkX_add_edge(st, source_id, target_id) ==
    IF DiGraph_has_node(st.graph, source_id) /\ DiGraph_has_node(st.graph, target_id)
    THEN Result([st EXCEPT
                   !.graph = DiGraph_add_edge(st.graph, source_id, target_id),
                   !.db = GraphDatabase_add_edge(st.db, source_id, target_id).db],
                None)
    ELSE Result(st, None)

NetworkX_get_node(st, node_id) ==
    IF ~DiGraph_has_node(st.graph, node_id) THEN None
    ELSE LET data == DictGet(st.graph.nodes[node_id], "data", EmptyDict)
         IN  IF data = EmptyDict THEN None
             ELSE Some(NodeData(data.id, data.type, data.content, data.metadata))

NetworkX_get_all_nodes(st) ==
    {NodeData(d.id, d.type, d.content, d.metadata) :
        d \in {DictGet(st.graph.nodes[i], "data", EmptyDict) : i \in DOMAIN st.graph.nodes}
               \ {EmptyDict}}

NetworkX_get_all_edges(st) == SetToBag(st.graph.edges)

(* Mutation: update_node reports what the durable store reports. *)
NetworkX_update_node_db_result(st, node_id, content, metadata) ==
    IF ~DiGraph_has_node(st.graph, node_id) THEN Result(st, FALSE)
    ELSE LET d0 == DictGet(st.graph.nodes[node_id], "data", EmptyDict)
             d1 == IF ~IsNone(content) THEN Put(d0, "content", Val(content)) ELSE d0
             d2 == IF ~IsNone(metadata)
                   THEN Put(d1, "metadata",
                            DictUpdate(DictGet(d1, "metadata", EmptyDict), Val(metadata)))
                   ELSE d1
             u == GraphDatabase_update_node(st.db, node_id, content, metadata)
         IN  Result([st EXCEPT
                       !.graph.nodes = Put(st.graph.nodes, node_id,
                                           Put(st.graph.nodes[node_id], "data", d2)),
                       !.db = u.db],
                    u.ret)

NetworkX_update_node(st, node_id, content, metadata) ==
    IF ~DiGraph_has_node(st.graph, node_id) THEN Result(st, FALSE)
    ELSE LET d0 == DictGet(st.graph.nodes[node_id], "data", EmptyDict)
             d1 == IF ~IsNone(content) THEN Put(d0, "content", Val(content)) ELSE d0
             d2 == IF ~IsNone(metadata)
                   THEN Put(d1, "metadata",
                            DictUpdate(DictGet(d1, "metadata", EmptyDict), Val(metadata)))
                   ELSE d1
         IN  Result([st EXCEPT
                       !.graph.nodes = Put(st.graph.nodes, node_id,
                                           Put(st.graph.nodes[node_id], "data", d2)),
                       !.db = GraphDatabase_update_node(st.db, node_id, content, metadata).db],
                    TRUE)

(* Mutation: delete_node that drops the node and keeps its edges. *)
NetworkX_delete_node_keep_edges(st, node_id) ==
    IF DiGraph_has_node(st.graph, node_id)
    THEN Result([st EXCEPT
                   !.graph.nodes = Pop(st.graph.nodes, node_id),
                   !.db = GraphDatabase_delete_node(st.db, node_id).db],
                TRUE)
    ELSE Result(st, FALSE)

NetworkX_delete_node(st, node_id) ==
    IF DiGraph_has_node(st.graph, node_id)
    THEN Result([st EXCEPT
                   !.graph = DiGraph_remove_node(st.graph, node_id),
                   !.db = GraphDatabase_delete_node(st.db, node_id).db],
                TRUE)
    ELSE Result(st, FALSE)

NetworkX_find_nodes(st, filters) ==
    {i \in DOMAIN st.graph.nodes :
        LET node_data == DictGet(st.graph.nodes[i], "data", EmptyDict)
        IN  /\ ("type" \in DOMAIN filters => DictGet(node_data, "type", None) = filters["type"])
            /\ ("content_match" \in DOMAIN filters =>
                   StrIn(Lower(filters["content_match"]),
                         Lower(DictGet(node_data, "content", <<>>))))}

NetworkX_get_neighbors(st, node_id) ==
    IF ~DiGraph_has_node(st.graph, node_id) THEN EmptyDict
    ELSE [parents |-> DiGraph_predecessors(st.graph, node_id),
          children |-> DiGraph_successors(st.graph, node_id)]

NetworkX_get_stats(st) ==
    LET types == {DictGet(DictGet(st.graph.nodes[i], "data", EmptyDict), "type", "unknown") :
                     i \in DOMAIN st.graph.nodes}
    IN  [total_nodes |-> Cardinality(DOMAIN st.graph.nodes),
         total_edges |-> Cardinality(st.graph.edges),
         node_types |-> [t \in types |->
            Cardinality({i \in DOMAIN st.graph.nodes :
               DictGet(DictGet(st.graph.nodes[i], "data", EmptyDict), "type", "unknown") = t})],
         density |-> nx_density(st.graph)]


(***************************************************************************)
(* infrastructure/neo4j_repo.py: Neo4jRepository.  The graph database      *)
(* holds vertices (label :Node, keyed by the id property) and a bag of     *)
(* RELATED_TO relationships: the database itself allows parallel           *)
(* relationships, MERGE is what keeps them unique.  The type labels that   *)
(* add_node sets besides :Node are left out: no query of the repository    *)
(* reads them (find_nodes and get_stats use the type property).            *)
(***************************************************************************)
(* Mutation: add_node merges the new metadata into the stored one. *)
Neo4j_add_node_merge_metadata(st, node) ==
    LET old == IF node.id \in DOMAIN st.neo4j.nodes
               THEN JsonLoads(st.neo4j.nodes[node.id].metadata) ELSE EmptyDict
        n == [id |-> node.id,
              content |-> node.content,
              type |-> node.type,
              metadata |-> JsonDumps(DictUpdate(old, node.metadata))]
    IN  Result([st EXCEPT !.neo4j.nodes = Put(st.neo4j.nodes, node.id, n)], None)

Neo4j_add_node(st, node) ==
    LET n == [id |-> node.id,
              content |-> node.content,
              type |-> node.type,
              metadata |-> JsonDumps(node.metadata)]
    IN  Result([st EXCEPT !.neo4j.nodes = Put(st.neo4j.nodes, node.id, n)], None)

(* Mutation: CREATE instead of MERGE, a relationship per call. *)
Neo4j_add_edge_create(st, source_id, target_id) ==
    IF source_id \in DOMAIN st.neo4j.nodes /\ target_id \in DOMAIN st.neo4j.nodes
    THEN Result([st EXCEPT !.neo4j.rels =
                    st.neo4j.rels (+) SetToBag({<<source_id, target_id>>})], None)
    ELSE Result(st, None)

Neo4j_add_edge(st, source_id, target_id) ==
    IF source_id \in DOMAIN st.neo4j.nodes /\ target_id \in DOMAIN st.neo4j.nodes
    THEN IF BagIn(<<source_id, target_id>>, st.neo4j.rels)
         THEN Result(st, None)
         ELSE Result([st EXCEPT !.neo4j.rels =
                         st.neo4j.rels (+) SetToBag({<<source_id, target_id>>})], None)
    ELSE Result(st, None)

map_to_nodedata(n) == NodeData(n.id, n.type, n.content, JsonLoads(n.metadata))

Neo4j_get_node(st, node_id) ==
    IF node_id \in DOMAIN st.neo4j.nodes
    THEN Some(map_to_nodedata(st.neo4j.nodes[node_id]))
    ELSE None

Neo4j_get_all_nodes(st) ==
    {map_to_nodedata(st.neo4j.nodes[i]) : i \in DOMAIN st.neo4j.nodes}

Neo4j_get_all_edges(st) == st.neo4j.rels

(* Mutation: update_node reports success without looking at the match count. *)
Neo4j_update_node_always_true(st, node_id, content, metadata) ==
    IF node_id \notin DOMAIN st.neo4j.nodes THEN Result(st, TRUE)
    ELSE LET n0 == st.neo4j.nodes[node_id]
             n1 == IF ~IsNone(content) THEN [n0 EXCEPT !.content = Val(content)] ELSE n0
             n2 == IF ~IsNone(metadata)
                   THEN [n1 EXCEPT !.metadata = JsonDumps(Val(metadata))] ELSE n1
         IN  Result([st EXCEPT !.neo4j.nodes = Put(st.neo4j.nodes, node_id, n2)], TRUE)

Neo4j_update_node(st, node_id, content, metadata) ==
    IF node_id \notin DOMAIN st.neo4j.nodes THEN Result(st, FALSE)
    ELSE LET n0 == st.neo4j.nodes[node_id]
             n1 == IF ~IsNone(content) THEN [n0 EXCEPT !.content = Val(content)] ELSE n0
             n2 == IF ~IsNone(metadata)
                   THEN [n1 EXCEPT !.metadata = JsonDumps(Val(metadata))] ELSE n1
         IN  Result([st EXCEPT !.neo4j.nodes = Put(st.neo4j.nodes, node_id, n2)], TRUE)

Neo4j_delete_node(st, node_id) ==
    IF node_id \notin DOMAIN st.neo4j.nodes THEN Result(st, FALSE)
    ELSE Result([st EXCEPT
                   !.neo4j.nodes = Pop(st.neo4j.nodes, node_id),
                   !.neo4j.rels = [e \in {x \in DOMAIN st.neo4j.rels :
                                             x[1] # node_id /\ x[2] # node_id}
                                     |-> st.neo4j.rels[e]]],
                TRUE)

Neo4j_find_nodes(st, filters) ==
    {i \in DOMAIN st.neo4j.nodes :
        /\ ("type" \in DOMAIN filters => st.neo4j.nodes[i].type = filters["type"])
        /\ ("content_match" \in DOMAIN filters =>
               StrIn(Lower(filters["content_match"]), Lower(st.neo4j.nodes[i].content)))}

Neo4j_get_neighbors(st, node_id) ==
    [parents |-> {e[1] : e \in {x \in DOMAIN st.neo4j.rels : x[2] = node_id}},
     children |-> {e[2] : e \in {x \in DOMAIN st.neo4j.rels : x[1] = node_id}}]

Neo4j_get_stats(st) ==
    [total_nodes |-> Cardinality(DOMAIN st.neo4j.nodes),
     total_edges |-> BagCardinality(st.neo4j.rels),
     node_types |-> [t \in {st.neo4j.nodes[i].type : i \in DOMAIN st.neo4j.nodes} |->
         Cardinality({i \in DOMAIN st.neo4j.nodes : st.neo4j.nodes[i].type = t})]]

(***************************************************************************)
(* infrastructure/hybrid_repo.py: HybridRepository                         *)
(***************************************************************************)
Hybrid_add_node(st, node) ==
    LET s1 == [st EXCEPT !.db = GraphDatabase_add_node(st.db, node.id, node.type,
                                                       node.content, node.metadata).db]
    IN  Result(Neo4j_add_node(s1, node).st, None)

Hybrid_add_edge(st, source_id, target_id) ==
    LET s1 == Neo4j_add_edge(st, source_id, target_id).st
    IN  Result([s1 EXCEPT !.db = GraphDatabase_add_edge(s1.db, source_id, target_id).db], None)

Hybrid_get_node(st, node_id) ==
    LET row == GraphDatabase_get_node(st.db, node_id)
    IN  IF IsNone(row) THEN None
        ELSE Some(NodeData(Val(row).id, Val(row).type, Val(row).content, Val(row).metadata))

Hybrid_get_all_nodes(st) ==
    {NodeData(r.id, r.type, r.content, r.metadata) : r \in GraphDatabase_get_all_nodes(st.db)}

Hybrid_get_all_edges(st) == Neo4j_get_all_edges(st)

(* Mutation: the re-read node is written to Neo4j whatever the SQLite      *)
(* update returned.                                                        *)
Hybrid_update_node_unconditional(st, node_id, content, metadata) ==
    LET u == GraphDatabase_update_node(st.db, node_id, content, metadata)
        s1 == [st EXCEPT !.db = u.db]
        updated_node == Hybrid_get_node(s1, node_id)
    IN  IF ~IsNone(updated_node)
        THEN Result(Neo4j_add_node(s1, Val(updated_node)).st, u.ret)
        ELSE Result(s1, u.ret)

Hybrid_update_node(st, node_id, content, metadata) ==
    LET u == GraphDatabase_update_node(st.db, node_id, content, metadata)
        s1 == [st EXCEPT !.db = u.db]
        updated_node == Hybrid_get_node(s1, node_id)
    IN  IF u.ret /\ ~IsNone(updated_node)
        THEN Result(Neo4j_add_node(s1, Val(updated_node)).st, u.ret)
        ELSE Result(s1, u.ret)

(* Mutation: the structure store is asked only when the content store    *)
(* did not delete (a short-circuit or).                                   *)
Hybrid_delete_node_short_circuit(st, node_id) ==
    LET sq == GraphDatabase_delete_node(st.db, node_id)
        s1 == [st EXCEPT !.db = sq.db]
    IN  IF sq.ret THEN Result(s1, TRUE)
        ELSE Neo4j_delete_node(s1, node_id)

Hybrid_delete_node(st, node_id) ==
    LET sq == GraphDatabase_delete_node(st.db, node_id)
        ne == Neo4j_delete_node([st EXCEPT !.db = sq.db], node_id)
    IN  Result(ne.st, sq.ret \/ ne.ret)

Hybrid_find_nodes(st, filters) ==
    GraphDatabase_find_nodes(st.db,
        IF "type" \in DOMAIN filters THEN Some(filters["type"]) ELSE None,
        IF "content_match" \in DOMAIN filters THEN Some(filters["content_match"]) ELSE None)

Hybrid_get_neighbors(st, node_id) == Neo4j_get_neighbors(st, node_id)

Hybrid_get_stats(st) ==
    LET sq_stats == GraphDatabase_get_statistics(st.db)
        ne_stats == Neo4j_get_stats(st)
    IN  [total_nodes |-> sq_stats.total_nodes,
         total_edges |-> ne_stats.total_edges,
         node_types |-> sq_stats.node_types,
         density |-> DictGet(ne_stats, "density", Zero)]

(***************************************************************************)
(* domain/repositories.py: the GraphRepository protocol, dispatched on the *)
(* backend that persistence_factory.py selected.                           *)
(***************************************************************************)
Repo_add_node(b, st, node) ==
    CASE b = "sqlite" -> NetworkX_add_node(st, node)
      [] b = "neo4j" -> Neo4j_add_node(st, node)
      [] b = "hybrid" -> Hybrid_add_node(st, node)

Repo_add_edge(b, st, source_id, target_id) ==
    CASE b = "sqlite" -> NetworkX_add_edge(st, source_id, target_id)
      [] b = "neo4j" -> Neo4j_add_edge(st, source_id, target_id)
      [] b = "hybrid" -> Hybrid_add_edge(st, source_id, target_id)

Repo_update_node(b, st, node_id, content, metadata) ==
    CASE b = "sqlite" -> NetworkX_update_node(st, node_id, content, metadata)
      [] b = "neo4j" -> Neo4j_update_node(st, node_id, content, metadata)
      [] b = "hybrid" -> Hybrid_update_node(st, node_id, content, metadata)

Repo_delete_node(b, st, node_id) ==
    CASE b = "sqlite" -> NetworkX_delete_node(st, node_id)
      [] b = "neo4j" -> Neo4j_delete_node(st, node_id)
      [] b = "hybrid" -> Hybrid_delete_node(st, node_id)

Repo_get_node(b, st, node_id) ==
    CASE b = "sqlite" -> NetworkX_get_node(st, node_id)
      [] b = "neo4j" -> Neo4j_get_node(st, node_id)
      [] b = "hybrid" -> Hybrid_get_node(st, node_id)

Repo_get_all_nodes(b, st) ==
    CASE b = "sqlite" -> NetworkX_get_all_nodes(st)
      [] b = "neo4j" -> Neo4j_get_all_nodes(st)
      [] b = "hybrid" -> Hybrid_get_all_nodes(st)

Repo_get_all_edges(b, st) ==
    CASE b = "sqlite" -> NetworkX_get_all_edges(st)
      [] b = "neo4j" -> Neo4j_get_all_edges(st)
      [] b = "hybrid" -> Hybrid_get_all_edges(st)

Repo_find_nodes(b, st, filters) ==
    CASE b = "sqlite" -> NetworkX_find_nodes(st, filters)
      [] b = "neo4j" -> Neo4j_find_nodes(st, filters)
      [] b = "hybrid" -> Hybrid_find_nodes(st, filters)

Repo_get_neighbors(b, st, node_id) ==
    CASE b = "sqlite" -> NetworkX_get_neighbors(st, node_id)
      [] b = "neo4j" -> Neo4j_get_neighbors(st, node_id)
      [] b = "hybrid" -> Hybrid_get_neighbors(st, node_id)

Repo_get_stats(b, st) ==
    CASE b = "sqlite" -> NetworkX_get_stats(st)
      [] b = "neo4j" -> Neo4j_get_stats(st)
      [] b = "hybrid" -> Hybrid_get_stats(st)

(***************************************************************************)
(* infrastructure/persistence_factory.py.  The factory state is the global *)
(* _repository_instance (None, or the repository object: its identity and  *)
(* its class), the number of repository objects constructed so far, and    *)
(* the set of connections that are open, each with the object that holds   *)
(* it: a NetworkXSQLiteRepository holds the sqlite3 connection of its      *)
(* GraphDatabase, a Neo4jRepository holds a driver, a HybridRepository     *)
(* holds both.                                                             *)
(***************************************************************************)
ModuleImport == [instance |-> None, created |-> 0, open |-> {}]

Connection(obj, kind) == [owner |-> obj.id, kind |-> kind]

Construct(obj) ==
    CASE obj.type = "neo4j" -> {Connection(obj, "driver")}
      [] obj.type = "hybrid" -> {Connection(obj, "driver"), Connection(obj, "sqlite")}
      [] obj.type = "sqlite" -> {Connection(obj, "sqlite")}

(* hasattr(_repository_instance, 'close'): of the three repository        *)
(* classes only Neo4jRepository defines close.                            *)
HasClose(obj) == obj.type = "neo4j"

Neo4j_close(obj, open) == open \ {Connection(obj, "driver")}

PersistenceFactory_get_repository(f, db_type) ==
    IF IsNone(f.instance)
    THEN LET obj == [id |-> f.created + 1, type |-> db_type]
         IN  [f |-> [instance |-> Some(obj),
                     created |-> f.created + 1,
                     open |-> f.open \cup Construct(obj)],
              ret |-> obj]
    ELSE [f |-> f, ret |-> Val(f.instance)]

PersistenceFactory_reset(f) ==
    [f EXCEPT !.instance = None,
              !.open = IF ~IsNone(f.instance) /\ HasClose(Val(f.instance))
                       THEN Neo4j_close(Val(f.instance), f.open)
                       ELSE f.open]

(***************************************************************************)
(* domain/graph.py: KnowledgeGraph, the service over the repository.       *)
(* add_knowledge adds the node, then one edge per parent in list order.    *)
(***************************************************************************)
RECURSIVE KnowledgeGraph_add_parents(_, _, _, _)
KnowledgeGraph_add_parents(b, st, parents, node_id) ==
    IF parents = <<>> THEN st
    ELSE KnowledgeGraph_add_parents(b, Repo_add_edge(b, st, Head(parents), node_id).st,
                                    Tail(parents), node_id)

(* Mutation: the parent edges are added before the node itself. *)
KnowledgeGraph_add_knowledge_edges_first(b, st, node, parents) ==
    Result(Repo_add_node(b, KnowledgeGraph_add_parents(b, st, parents, node.id), node).st,
           None)

KnowledgeGraph_add_knowledge(b, st, node, parents) ==
    Result(KnowledgeGraph_add_parents(b, Repo_add_node(b, st, node).st, parents, node.id),
           None)

(* Mutation: a depth above 1 also collects the parents' parents and the  *)
(* children's children.                                                   *)
KnowledgeGraph_get_context_deep(b, st, node_id, depth) ==
    LET node == Repo_get_node(b, st, node_id)
        neighbors == Repo_get_neighbors(b, st, node_id)
        parents == DictGet(neighbors, "parents", {})
        children == DictGet(neighbors, "children", {})
    IN  IF IsNone(node) THEN EmptyDict
        ELSE [node |-> ModelDump(Val(node)),
              parents |-> parents,
              children |-> children,
              ancestors |-> IF depth > 1
                  THEN UNION {DictGet(Repo_get_neighbors(b, st, p), "parents", {}) : p \in parents}
                  ELSE {},
              descendants |-> IF depth > 1
                  THEN UNION {DictGet(Repo_get_neighbors(b, st, c), "children", {}) : c \in children}
                  ELSE {}]

KnowledgeGraph_get_context(b, st, node_id, depth) ==
    LET node == Repo_get_node(b, st, node_id)
        neighbors == Repo_get_neighbors(b, st, node_id)
    IN  IF IsNone(node) THEN EmptyDict
        ELSE [node |-> ModelDump(Val(node)),
              parents |-> DictGet(neighbors, "parents", {}),
              children |-> DictGet(neighbors, "children", {}),
              ancestors |-> {},
              descendants |-> {}]

KnowledgeGraph_get_node_data(b, st, node_id) == Repo_get_node(b, st, node_id)
KnowledgeGraph_get_successors(b, st, node_id) ==
    DictGet(Repo_get_neighbors(b, st, node_id), "children", {})
KnowledgeGraph_get_predecessors(b, st, node_id) ==
    DictGet(Repo_get_neighbors(b, st, node_id), "parents", {})

(***************************************************************************)
(* packages/ai_dev_graph_mcp/.../server.py: AdvancedMCPServer.  The server *)
(* reads the graph through self.kg.  kg is the service it reads: the       *)
(* backend, the stores, and ord, the order in which the backend lists ids  *)
(* (a sequence holding every id once); ToList is a neighbour list in that  *)
(* order.                                                                  *)
(***************************************************************************)
KG(b, st, ord) == [b |-> b, st |-> st, ord |-> ord]
ToList(S, ord) == SelectSeq(ord, LAMBDA x : x \in S)
Range(q) == {q[k] : k \in DOMAIN q}
Preview(content) == SubSeq(content, 1, IF Len(content) < 200 THEN Len(content) ELSE 200)

matches_filter(node_data, node_filter) ==
    /\ ~("type" \in DOMAIN node_filter /\ node_data.type # node_filter["type"])
    /\ ~("content_match" \in DOMAIN node_filter
           /\ ~StrIn(Lower(node_filter["content_match"]), Lower(node_data.content)))

traverse_neighbors(kg, node_id, direction) ==
    (IF direction \in {"forward", "both"}
     THEN ToList(KnowledgeGraph_get_successors(kg.b, kg.st, node_id), kg.ord) ELSE <<>>)
    \o (IF direction \in {"backward", "both"}
        THEN ToList(KnowledgeGraph_get_predecessors(kg.b, kg.st, node_id), kg.ord) ELSE <<>>)

(* The while loop of traverse_graph: queue holds (node_id, depth, path),  *)
(* acc holds visited, paths and nodes_by_depth.                           *)
RECURSIVE traverse_loop(_, _, _, _, _, _)
traverse_loop(kg, queue, acc, max_depth, direction, node_filter) ==
    IF queue = <<>> THEN acc
    ELSE
    LET node_id == Head(queue).node_id
        depth == Head(queue).depth
        current_path == Append(Head(queue).path, node_id)
        visited == acc.visited \cup {node_id}
        node_data == KnowledgeGraph_get_node_data(kg.b, kg.st, node_id)
        matches == matches_filter(Val(node_data), node_filter)
        entry == [id |-> node_id,
                  type |-> Val(node_data).type,
                  content |-> Preview(Val(node_data).content),
                  metadata |-> Val(node_data).metadata]
        nodes_by_depth ==
            IF matches
            THEN Put(acc.nodes_by_depth, depth,
                     Append(DictGet(acc.nodes_by_depth, depth, <<>>), entry))
            ELSE acc.nodes_by_depth
        fresh == SelectSeq(traverse_neighbors(kg, node_id, direction),
                           LAMBDA n : n \notin visited)
        pushed == [k \in DOMAIN fresh |->
                     [node_id |-> fresh[k], depth |-> depth + 1, path |-> current_path]]
    IN  IF depth > max_depth \/ node_id \in acc.visited
        THEN traverse_loop(kg, Tail(queue), acc, max_depth, direction, node_filter)
        ELSE IF IsNone(node_data)
        THEN traverse_loop(kg, Tail(queue), [acc EXCEPT !.visited = visited],
                           max_depth, direction, node_filter)
        ELSE IF depth = max_depth
        THEN traverse_loop(kg, Tail(queue),
                 [visited |-> visited,
                  paths |-> IF matches THEN Append(acc.paths, current_path) ELSE acc.paths,
                  nodes_by_depth |-> nodes_by_depth],
                 max_depth, direction, node_filter)
        ELSE traverse_loop(kg, Tail(queue) \o pushed,
                 [visited |-> visited, paths |-> acc.paths, nodes_by_depth |-> nodes_by_depth],
                 max_depth, direction, node_filter)

(* Mutation: a node that does not match the filter is not expanded. *)
traverse_graph_pruning(kg, start_node, max_depth, direction, node_filter) ==
    LET node_data == KnowledgeGraph_get_node_data(kg.b, kg.st, start_node)
        blocked == ~IsNone(node_data) /\ ~matches_filter(Val(node_data), node_filter)
        acc == traverse_loop(kg,
                   <<[node_id |-> start_node, depth |-> 0, path |-> <<>>]>>,
                   [visited |-> {}, paths |-> <<>>, nodes_by_depth |-> EmptyDict],
                   IF blocked THEN 0 ELSE max_depth, direction, node_filter)
    IN  [start_node |-> start_node,
         max_depth |-> max_depth,
         nodes_visited |-> Cardinality(acc.visited),
         paths |-> acc.paths,
         nodes_by_depth |-> acc.nodes_by_depth]

(* Mutation: the start node is queued at depth 1.                          *)
traverse_graph_from_one(kg, start_node, max_depth, direction, node_filter) ==
    LET acc == traverse_loop(kg,
                   <<[node_id |-> start_node, depth |-> 1, path |-> <<>>]>>,
                   [visited |-> {}, paths |-> <<>>, nodes_by_depth |-> EmptyDict],
                   max_depth, direction, node_filter)
    IN  [start_node |-> start_node,
         max_depth |-> max_depth,
         nodes_visited |-> Cardinality(acc.visited),
         paths |-> acc.paths,
         nodes_by_depth |-> acc.nodes_by_depth]

traverse_graph(kg, start_node, max_depth, direction, node_filter) ==
    LET acc == traverse_loop(kg,
                   <<[node_id |-> start_node, depth |-> 0, path |-> <<>>]>>,
                   [visited |-> {}, paths |-> <<>>, nodes_by_depth |-> EmptyDict],
                   max_depth, direction, node_filter)
    IN  [start_node |-> start_node,
         max_depth |-> max_depth,
         nodes_visited |-> Cardinality(acc.visited),
         paths |-> acc.paths,
         nodes_by_depth |-> acc.nodes_by_depth]

(* The while loop of find_shortest_path: queue holds (node, path).  The   *)
(* for loop returns at the neighbour that equals target; the neighbours   *)
(* it passed before only went to visited and to the queue, so the value   *)
(* returned is path + [target] whenever target is among the neighbours.   *)
RECURSIVE shortest_loop(_, _, _, _, _)
shortest_loop(kg, queue, visited, target, max_depth) ==
    IF queue = <<>> THEN None
    ELSE
    LET node == Head(queue).node
        path == Head(queue).path
        neighbors == KnowledgeGraph_get_successors(kg.b, kg.st, node)
                         \cup KnowledgeGraph_get_predecessors(kg.b, kg.st, node)
        fresh == ToList(neighbors \ visited, kg.ord)
        pushed == [k \in DOMAIN fresh |-> [node |-> fresh[k], path |-> Append(path, fresh[k])]]
    IN  IF Len(path) > max_depth
        THEN shortest_loop(kg, Tail(queue), visited, target, max_depth)
        ELSE IF target \in neighbors THEN Some(Append(path, target))
        ELSE shortest_loop(kg, Tail(queue) \o pushed, visited \cup neighbors,
                           target, max_depth)

(* Mutation: the ceiling is applied one hop too early. *)
find_shortest_path_early_ceiling(kg, source, target, max_depth) ==
    IF source = target THEN Some(<<source>>)
    ELSE shortest_loop(kg, <<[node |-> source, path |-> <<source>>]>>, {source},
                       target, max_depth - 1)

find_shortest_path(kg, source, target, max_depth) ==
    IF source = target THEN Some(<<source>>)
    ELSE shortest_loop(kg, <<[node |-> source, path |-> <<source>>]>>, {source},
                       target, max_depth)

(* The nested dfs of find_all_paths: paths is the list shared by all the  *)
(* calls, lim holds max_depth and max_paths; dfs_for is the for loop over *)
(* the successors that are left.                                          *)
RECURSIVE dfs(_, _, _, _, _, _, _)
RECURSIVE dfs_for(_, _, _, _, _, _, _)
dfs(kg, current, target, path, depth, paths, lim) ==
    IF Len(paths) >= lim.max_paths \/ depth > lim.max_depth THEN paths
    ELSE IF current = target THEN Append(paths, path)
    ELSE dfs_for(kg, ToList(KnowledgeGraph_get_successors(kg.b, kg.st, current), kg.ord),
                 target, path, depth, paths, lim)

dfs_for(kg, successors, target, path, depth, paths, lim) ==
    IF successors = <<>> THEN paths
    ELSE LET neighbor == Head(successors)
             found == IF neighbor \notin Range(path)
                      THEN dfs(kg, neighbor, target, Append(path, neighbor), depth + 1,
                               paths, lim)
                      ELSE paths
         IN  dfs_for(kg, Tail(successors), target, path, depth, found, lim)

(* Mutation: the search stops one path after max_paths is reached. *)
find_all_paths_one_more(kg, source, target, max_depth, max_paths) ==
    dfs(kg, source, target, <<source>>, 0, <<>>,
        [max_depth |-> max_depth, max_paths |-> max_paths + 1])

find_all_paths(kg, source, target, max_depth, max_paths) ==
    dfs(kg, source, target, <<source>>, 0, <<>>,
        [max_depth |-> max_depth, max_paths |-> max_paths])

(* The nested dfs of detect_communities, with the call stack made         *)
(* explicit: stack holds the ids whose dfs call is still to be made, in   *)
(* call order; acc holds visited and the community being filled.          *)
RECURSIVE communities_dfs(_, _, _)
communities_dfs(kg, stack, acc) ==
    IF stack = <<>> THEN acc
    ELSE LET node_id == Head(stack)
             neighbors == KnowledgeGraph_get_successors(kg.b, kg.st, node_id)
                              \cup KnowledgeGraph_get_predecessors(kg.b, kg.st, node_id)
         IN  IF node_id \in acc.visited THEN communities_dfs(kg, Tail(stack), acc)
             ELSE communities_dfs(kg, ToList(neighbors, kg.ord) \o Tail(stack),
                      [visited |-> acc.visited \cup {node_id},
                       community |-> Append(acc.community, node_id)])

(* The for loop over all_nodes: communities is the sequence of the lists  *)
(* stored under community_0, community_1, ...                             *)
RECURSIVE communities_for(_, _, _, _)
communities_for(kg, all_nodes, visited, communities) ==
    IF all_nodes = <<>> THEN communities
    ELSE IF Head(all_nodes) \in visited
    THEN communities_for(kg, Tail(all_nodes), visited, communities)
    ELSE LET acc == communities_dfs(kg, <<Head(all_nodes)>>,
                                    [visited |-> visited, community |-> <<>>])
         IN  communities_for(kg, Tail(all_nodes), acc.visited,
                 IF acc.community # <<>> THEN Append(communities, acc.community)
                 ELSE communities)

(* Mutation: community_id is never incremented, every community is stored *)
(* under community_0.                                                     *)
detect_communities_same_key(kg) ==
    LET all_nodes == ToList({n.id : n \in Repo_get_all_nodes(kg.b, kg.st)}, kg.ord)
        communities == communities_for(kg, all_nodes, {}, <<>>)
    IN  IF communities = <<>> THEN <<>> ELSE <<communities[Len(communities)]>>

detect_communities(kg) ==
    LET all_nodes == ToList({n.id : n \in Repo_get_all_nodes(kg.b, kg.st)}, kg.ord)
    IN  communities_for(kg, all_nodes, {}, <<>>)

(* re.findall(r"\w+", s): the maximal runs of word characters of s, left   *)
(* to right; word is the run being read.                                   *)
RECURSIVE re_findall_words(_, _)
re_findall_words(s, word) ==
    IF s = <<>> THEN (IF word = <<>> THEN <<>> ELSE <<word>>)
    ELSE IF Head(s) \in {"a", "b", "A", "B", "_"}
    THEN re_findall_words(Tail(s), Append(word, Head(s)))
    ELSE (IF word = <<>> THEN <<>> ELSE <<word>>) \o re_findall_words(Tail(s), <<>>)

(* list.sort(key=lambda x: x["score"], reverse=True): descending and       *)
(* stable.                                                                 *)
RECURSIVE sort_by_score(_)
sort_by_score(results) ==
    IF results = <<>> THEN <<>>
    ELSE LET x == Head(results)
             rest == sort_by_score(Tail(results))
         IN  SelectSeq(rest, LAMBDA y : y.score > x.score) \o <<x>>
                 \o SelectSeq(rest, LAMBDA y : y.score <= x.score)

(* The score is kept as an exact fraction: 0.5 * Jaccard of the neighbour *)
(* sets + 0.3 * Jaccard of the word sets + 0.1 for compatible types,       *)
(* capped at 1.                                                            *)
calculate_link_score(kg, node1_id, node2_id) ==
    LET neighbors1 == KnowledgeGraph_get_successors(kg.b, kg.st, node1_id)
                          \cup KnowledgeGraph_get_predecessors(kg.b, kg.st, node1_id)
        neighbors2 == KnowledgeGraph_get_successors(kg.b, kg.st, node2_id)
                          \cup KnowledgeGraph_get_predecessors(kg.b, kg.st, node2_id)
        common == Cardinality(neighbors1 \cap neighbors2)
        total == Cardinality(neighbors1 \cup neighbors2)
        structure == IF total > 0 THEN Ratio(common, 2 * total) ELSE Zero
        node1 == KnowledgeGraph_get_node_data(kg.b, kg.st, node1_id)
        node2 == KnowledgeGraph_get_node_data(kg.b, kg.st, node2_id)
        both == ~IsNone(node1) /\ ~IsNone(node2)
        words1 == IF both THEN Range(re_findall_words(Lower(Val(node1).content), <<>>)) ELSE {}
        words2 == IF both THEN Range(re_findall_words(Lower(Val(node2).content), <<>>)) ELSE {}
        common_words == Cardinality(words1 \cap words2)
        total_words == Cardinality(words1 \cup words2)
        similarity == IF total_words > 0 THEN Ratio(3 * common_words, 10 * total_words)
                      ELSE Zero
        type1 == IF both THEN Val(node1).type ELSE "none1"
        type2 == IF both THEN Val(node2).type ELSE "none2"
        bonus == IF type1 = type2 \/ {type1, type2} = {"concept", "guideline"}
                 THEN Ratio(1, 10) ELSE Zero
        score == Ratio(structure.num * similarity.den * bonus.den
                           + similarity.num * structure.den * bonus.den
                           + bonus.num * structure.den * similarity.den,
                       structure.den * similarity.den * bonus.den)
    IN  IF score.num > score.den THEN Ratio(1, 1) ELSE score

(* The two nested loops of predict_missing_links over all_nodes (a list of *)
(* ids); min_score and the stored score are in thousandths, the stored     *)
(* score being round(score, 3).  The "reason" text is left out.            *)
RECURSIVE predict_loop(_, _, _, _)
predict_loop(kg, all_nodes, inner, min_score) ==
    IF all_nodes = <<>> THEN <<>>
    ELSE IF inner = <<>>
    THEN (IF Tail(all_nodes) = <<>> THEN <<>>
          ELSE predict_loop(kg, Tail(all_nodes), Tail(Tail(all_nodes)), min_score))
    ELSE LET node1 == Head(all_nodes)
             node2 == Head(inner)
             score == calculate_link_score(kg, node1, node2)
             more == predict_loop(kg, all_nodes, Tail(inner), min_score)
         IN  IF node2 \in KnowledgeGraph_get_successors(kg.b, kg.st, node1) THEN more
             ELSE IF node1 \in KnowledgeGraph_get_successors(kg.b, kg.st, node2) THEN more
             ELSE IF score.num * 1000 >= min_score * score.den
             THEN <<[source |-> node1, target |-> node2,
                     score |-> (2000 * score.num + score.den) \div (2 * score.den),
                     source_type |-> Val(KnowledgeGraph_get_node_data(kg.b, kg.st, node1)).type,
                     target_type |-> Val(KnowledgeGraph_get_node_data(kg.b, kg.st, node2)).type]>>
                      \o more
             ELSE more

(* Mutation: the inner loop of the first node starts at all_nodes[i:]      *)
(* instead of all_nodes[i + 1:].                                           *)
predict_missing_links_from_i(kg, min_score, max_predictions) ==
    LET all_nodes == ToList({n.id : n \in Repo_get_all_nodes(kg.b, kg.st)}, kg.ord)
        predictions == sort_by_score(predict_loop(kg, all_nodes, all_nodes, min_score))
    IN  SubSeq(predictions, 1,
               IF Len(predictions) < max_predictions THEN Len(predictions)
               ELSE max_predictions)

predict_missing_links(kg, min_score, max_predictions) ==
    LET all_nodes == ToList({n.id : n \in Repo_get_all_nodes(kg.b, kg.st)}, kg.ord)
        predictions == sort_by_score(
            predict_loop(kg, all_nodes, IF all_nodes = <<>> THEN <<>> ELSE Tail(all_nodes),
                         min_score))
    IN  SubSeq(predictions, 1,
               IF Len(predictions) < max_predictions THEN Len(predictions)
               ELSE max_predictions)

(* str(node.metadata) as a sequence of tokens, a key or a value being one  *)
(* token: {'k': 1, ...}.                                                   *)
RECURSIVE dict_str(_)
dict_str(m) ==
    IF m = EmptyDict THEN <<"{", "}">>
    ELSE LET k == CHOOSE x \in DOMAIN m : TRUE
             rest == dict_str(Pop(m, k))
         IN  <<"{", "'", k, "'", ":", " ", ToString(m[k])>>
                 \o (IF Len(rest) > 2 THEN <<",", " ">> ELSE <<>>) \o Tail(rest)

(* The score semantic_search gives one node.                               *)
search_score(node, query, include_metadata) ==
    LET query_lower == Lower(query)
        query_words == Range(re_findall_words(query_lower, <<>>))
        content_lower == Lower(node.content)
        position == CHOOSE i \in 0..Len(content_lower) :
                        /\ SubSeq(content_lower, i + 1, i + Len(query_lower)) = query_lower
                        /\ \A j \in 0..(i - 1) :
                              SubSeq(content_lower, j + 1, j + Len(query_lower)) # query_lower
        content_words == Range(re_findall_words(content_lower, <<>>))
    IN  (IF StrIn(query_lower, content_lower)
         THEN 100 + (IF 50 - position > 0 THEN 50 - position ELSE 0) ELSE 0)
        + Cardinality(query_words \cap content_words) * 10
        + (IF include_metadata /\ node.metadata # EmptyDict
               /\ StrIn(query_lower, Lower(dict_str(node.metadata)))
           THEN 20 ELSE 0)
        + (IF node.type = "concept" THEN 5 ELSE IF node.type = "rule" THEN 3 ELSE 0)

(* all_results of semantic_search: find_nodes once per requested type, the *)
(* lists concatenated.                                                     *)
RECURSIVE search_all_results(_, _)
search_all_results(kg, node_types) ==
    IF node_types = <<>> THEN <<>>
    ELSE ToList(Repo_find_nodes(kg.b, kg.st, [k \in {"type"} |-> Head(node_types)]), kg.ord)
             \o search_all_results(kg, Tail(node_types))

(* node_types is None or Some(list); an empty list counts as None.         *)
semantic_search(kg, query, node_types, limit, include_metadata) ==
    LET all_results ==
            IF ~IsNone(node_types) /\ Val(node_types) # <<>>
            THEN search_all_results(kg, Val(node_types))
            ELSE ToList(Repo_find_nodes(kg.b, kg.st, EmptyDict), kg.ord)
        found == SelectSeq(all_results,
                     LAMBDA node_id :
                         /\ ~IsNone(KnowledgeGraph_get_node_data(kg.b, kg.st, node_id))
                         /\ search_score(Val(KnowledgeGraph_get_node_data(kg.b, kg.st, node_id)),
                                         query, include_metadata) > 0)
        scored_results ==
            [k \in DOMAIN found |->
                LET node == Val(KnowledgeGraph_get_node_data(kg.b, kg.st, found[k]))
                IN  [id |-> found[k], type |-> node.type, content |-> node.content,
                     score |-> search_score(node, query, include_metadata),
                     parents |-> KnowledgeGraph_get_predecessors(kg.b, kg.st, found[k]),
                     children |-> KnowledgeGraph_get_successors(kg.b, kg.st, found[k]),
                     metadata |-> IF include_metadata THEN Some(node.metadata) ELSE None]]
        sorted == sort_by_score(scored_results)
    IN  SubSeq(sorted, 1, IF Len(sorted) < limit THEN Len(sorted) ELSE limit)

(***************************************************************************)
(* waterfall_tracker.py.  A tracker is [features, storage]: the features  *)
(* mapping of the instance and the content of the state file (None while   *)
(* no file exists).  A feature is [current_stage, stage_history, notes];   *)
(* stage_history holds the "stage" of every entry, notes the regression    *)
(* reasons appended; the timestamps and the title are left out.            *)
(***************************************************************************)
STAGE_ORDER ==
    <<"analysis", "design", "implementation", "testing", "documentation", "release",
      "completed">>

WaterfallTracker == [features |-> EmptyDict, storage |-> None]

(* Mutation: the last stage before COMPLETED is passed over.               *)
FeatureProgress_advance_stage_skip(self) ==
    LET current_idx == CHOOSE i \in DOMAIN STAGE_ORDER : STAGE_ORDER[i] = self.current_stage
    IN  IF current_idx < Len(STAGE_ORDER)
        THEN [self |-> [self EXCEPT !.stage_history = Append(@, self.current_stage),
                                    !.current_stage =
                                        STAGE_ORDER[IF current_idx = Len(STAGE_ORDER) - 2
                                                    THEN current_idx + 2
                                                    ELSE current_idx + 1]],
              ret |-> TRUE]
        ELSE [self |-> self, ret |-> FALSE]

(* current_idx is the 1-based position in STAGE_ORDER.                     *)
FeatureProgress_advance_stage(self) ==
    LET current_idx == CHOOSE i \in DOMAIN STAGE_ORDER : STAGE_ORDER[i] = self.current_stage
    IN  IF current_idx < Len(STAGE_ORDER)
        THEN [self |-> [self EXCEPT !.stage_history = Append(@, self.current_stage),
                                    !.current_stage = STAGE_ORDER[current_idx + 1]],
              ret |-> TRUE]
        ELSE [self |-> self, ret |-> FALSE]

FeatureProgress_regress_stage(self) ==
    LET current_idx == CHOOSE i \in DOMAIN STAGE_ORDER : STAGE_ORDER[i] = self.current_stage
    IN  IF current_idx > 1
        THEN [self |-> [self EXCEPT !.current_stage = STAGE_ORDER[current_idx - 1]],
              ret |-> TRUE]
        ELSE [self |-> self, ret |-> FALSE]

WaterfallTracker_save(features) == [features |-> features, storage |-> Some(features)]

WaterfallTracker_start_feature(w, feature_id) ==
    WaterfallTracker_save(
        Put(w.features, feature_id,
            [current_stage |-> "analysis", stage_history |-> <<>>, notes |-> <<>>]))

WaterfallTracker_advance_feature(w, feature_id) ==
    IF feature_id \notin DOMAIN w.features THEN [w |-> w, ret |-> FALSE]
    ELSE LET r == FeatureProgress_advance_stage(w.features[feature_id])
         IN  IF r.ret
             THEN [w |-> WaterfallTracker_save(Put(w.features, feature_id, r.self)),
                   ret |-> TRUE]
             ELSE [w |-> w, ret |-> FALSE]

WaterfallTracker_regress_feature(w, feature_id, reason) ==
    IF feature_id \notin DOMAIN w.features THEN [w |-> w, ret |-> FALSE]
    ELSE LET r == FeatureProgress_regress_stage(w.features[feature_id])
             feature == IF reason # "" THEN [r.self EXCEPT !.notes = Append(@, reason)]
                        ELSE r.self
         IN  IF r.ret
             THEN [w |-> WaterfallTracker_save(Put(w.features, feature_id, feature)),
                   ret |-> TRUE]
             ELSE [w |-> w, ret |-> FALSE]

(***************************************************************************)
(* Inputs of the calls.                                                    *)
(***************************************************************************)
MetaInputs == {EmptyDict, [k \in MetaKeys |-> 1]}
MetaUpdates == {[k \in {"k2"} |-> v] : v \in MetaValues \ {1}}
NodeInputs ==
    {NodeData(i, t, c, m) : i \in Ids, t \in TypeInputs, c \in ContentInputs, m \in MetaInputs}
ContentArgs == {None} \cup {Some(c) : c \in ContentInputs}
MetaArgs == {None} \cup {Some(m) : m \in MetaUpdates}

RECURSIVE Lists(_, _)
Lists(S, n) ==
    IF n = 0 THEN {<<>>}
    ELSE Lists(S, n - 1) \cup {Append(w, x) : w \in Lists(S, n - 1), x \in S}
ParentIds == Ids \cup {"c"}
ParentInputs == Lists(ParentIds, MaxParents)
DepthInputs == 0..MaxDepth
KnowledgeInputs == {n \in NodeInputs : n.type = "concept" /\ n.content = <<"b">>}

(***************************************************************************)
(* The state machine: the stores of the active repository.  Every action   *)
(* is one call of the contract by a client; the value the call returns     *)
(* goes to the client and is not kept.                                     *)
(***************************************************************************)
cur == State(graph, db, neo4j)

(* The clients that may be inside HybridRepository.update_node at the same *)
(* time, and a client that is not inside a call.                           *)
Clients == {"c1", "c2"}
Idle == [pc |-> "idle", node_id |-> None, updated_node |-> None]

Apply(r) ==
    /\ graph' = r.st.graph
    /\ db' = r.st.db
    /\ neo4j' = r.st.neo4j
    /\ UNCHANGED <<backend, factory, waterfall, migration, calls>>

Init ==
    /\ backend \in DatabaseType
    /\ graph = DiGraph
    /\ db = [nodes |-> EmptyDict, edges |-> {}, writable |-> TRUE]
    /\ neo4j = [nodes |-> EmptyDict, rels |-> EmptyBag]
    /\ factory = PersistenceFactory_get_repository(ModuleImport, backend).f
    /\ waterfall = WaterfallTracker
    /\ migration = [pc |-> "idle", nodes |-> <<>>, edges |-> <<>>, count |-> 0, synced |-> EmptyDict, calls |-> <<>>]
    /\ calls = [c \in Clients |-> Idle]

add_node ==
    \E node \in NodeInputs : Apply(Repo_add_node(backend, cur, node))

add_edge ==
    \E s \in Ids, t \in Ids : Apply(Repo_add_edge(backend, cur, s, t))

update_node ==
    \E i \in Ids, c \in ContentArgs, m \in MetaArgs :
        Apply(Repo_update_node(backend, cur, i, c, m))

delete_node ==
    \E i \in Ids : Apply(Repo_delete_node(backend, cur, i))

Next == add_node \/ add_edge \/ update_node \/ delete_node

Spec == Init /\ [][Next]_vars

(***************************************************************************)
(* The same stores driven through the KnowledgeGraph service: a client     *)
(* that builds the graph with add_knowledge and removes nodes with         *)
(* delete_node (KnowledgeGraph.delete_node hands over to the repository).  *)
(***************************************************************************)
add_knowledge ==
    \E node \in KnowledgeInputs, parents \in ParentInputs :
        Apply(KnowledgeGraph_add_knowledge(backend, cur, node, parents))

ServiceNext == add_knowledge \/ delete_node

ServiceSpec == Init /\ [][ServiceNext]_vars

(***************************************************************************)
(* The backends that hold a SQLite store, with a store that may stop and   *)
(* resume accepting writes between the calls of the client.                *)
(***************************************************************************)
FaultNodeInputs == {n \in KnowledgeInputs : n.metadata = EmptyDict}
FaultContentArgs == {Some(<<"b", "A">>)}

FaultInit ==
    /\ Init
    /\ backend \in {"sqlite", "hybrid"}

set_writable ==
    /\ db' = [db EXCEPT !.writable = ~db.writable]
    /\ UNCHANGED <<backend, graph, neo4j, factory, waterfall, migration, calls>>

fault_add_node ==
    \E node \in FaultNodeInputs : Apply(Repo_add_node(backend, cur, node))

fault_add_edge ==
    \E s \in Ids, t \in Ids : Apply(Repo_add_edge(backend, cur, s, t))

fault_update_node ==
    \E i \in Ids, c \in FaultContentArgs : Apply(Repo_update_node(backend, cur, i, c, None))

fault_delete_node ==
    \E i \in Ids : Apply(Repo_delete_node(backend, cur, i))

FaultNext ==
    set_writable \/ fault_add_node \/ fault_add_edge \/ fault_update_node \/ fault_delete_node

FaultSpec == FaultInit /\ [][FaultNext]_vars

(***************************************************************************)
(* The singleton of persistence_factory.py from the import of the module   *)
(* on: clients call get_repository and reset, and settings.database_type   *)
(* is assigned between the calls (migrate_to_neo4j.py, the test fixtures). *)
(* The stores stay as they are: no call of the contract is made here.      *)
(***************************************************************************)
FactoryInit ==
    /\ backend \in DatabaseType
    /\ graph = DiGraph
    /\ db = [nodes |-> EmptyDict, edges |-> {}, writable |-> TRUE]
    /\ neo4j = [nodes |-> EmptyDict, rels |-> EmptyBag]
    /\ factory = ModuleImport
    /\ waterfall = WaterfallTracker
    /\ migration = [pc |-> "idle", nodes |-> <<>>, edges |-> <<>>, count |-> 0, synced |-> EmptyDict, calls |-> <<>>]
    /\ calls = [c \in Clients |-> Idle]

get_repository ==
    /\ IsNone(factory.instance) => factory.created < MaxInstances
    /\ factory' = PersistenceFactory_get_repository(factory, backend).f
    /\ UNCHANGED <<backend, graph, db, neo4j, waterfall, migration, calls>>

reset ==
    /\ factory' = PersistenceFactory_reset(factory)
    /\ UNCHANGED <<backend, graph, db, neo4j, waterfall, migration, calls>>

set_database_type ==
    /\ backend' \in DatabaseType \ {backend}
    /\ UNCHANGED <<graph, db, neo4j, factory, waterfall, migration, calls>>

FactoryNext == get_repository \/ reset \/ set_database_type

FactorySpec == FactoryInit /\ [][FactoryNext]_vars

(***************************************************************************)
(* The graph the analysis engine of server.py reads: three nodes as in the *)
(* fixture of tests/test_advanced_mcp.py (two concepts and a guideline),   *)
(* added in any order, and edges added between nodes that exist.           *)
(***************************************************************************)
AnalysisIds == Ids \cup {"c"}
AnalysisNodeInputs ==
    {NodeData("a", "concept", <<"b">>, EmptyDict),
     NodeData("b", "concept", <<"b", "A">>, EmptyDict),
     NodeData("c", "guideline", <<"b">>, EmptyDict)}
Orders ==
    {o \in [1..Cardinality(AnalysisIds) -> AnalysisIds] :
        \A i \in DOMAIN o, j \in DOMAIN o : i # j => o[i] # o[j]}
Directions == {"forward", "backward", "both"}
DepthArgs == (0 - 1)..MaxDepth
PathLimits == 0..MaxPaths
AnalysisFilters ==
    {EmptyDict,
     [k \in {"type"} |-> "guideline"],
     [k \in {"content_match"} |-> <<"A">>],
     [k \in {"type", "content_match"} |-> IF k = "type" THEN "concept" ELSE <<"a">>]}

analysis_add_node ==
    \E node \in AnalysisNodeInputs :
        /\ IsNone(Repo_get_node(backend, cur, node.id))
        /\ Apply(Repo_add_node(backend, cur, node))

analysis_add_edge ==
    \E s \in AnalysisIds, t \in AnalysisIds :
        /\ ~IsNone(Repo_get_node(backend, cur, s))
        /\ ~IsNone(Repo_get_node(backend, cur, t))
        /\ Apply(Repo_add_edge(backend, cur, s, t))

AnalysisNext == analysis_add_node \/ analysis_add_edge

AnalysisSpec == Init /\ [][AnalysisNext]_vars

(***************************************************************************)
(* Observations through the repository contract, used by the properties.   *)
(***************************************************************************)
Exists(st, i) == ~IsNone(Repo_get_node(backend, st, i))
Node(st, i) == Val(Repo_get_node(backend, st, i))
Edges(st) == BagToSet(Repo_get_all_edges(backend, st))
Parents(st, i) == DictGet(Repo_get_neighbors(backend, st, i), "parents", {})
Children(st, i) == DictGet(Repo_get_neighbors(backend, st, i), "children", {})
NodeIds(st) == {i \in Ids : Exists(st, i)}

RECURSIVE Strings(_)
Strings(n) ==
    IF n = 0 THEN {<<>>}
    ELSE Strings(n - 1) \cup {Append(w, c) : w \in Strings(n - 1), c \in FilterAlphabet}
FilterStrings == Strings(MaxFilterLen)
TypeFilters == {EmptyDict} \cup {[k \in {"type"} |-> t] : t \in NodeType}
ContentFilters == {EmptyDict} \cup {[k \in {"content_match"} |-> w] : w \in FilterStrings}
FilterInputs == {DictUpdate(tf, cf) : tf \in TypeFilters, cf \in ContentFilters}

(***************************************************************************)
(* C1.  On the embedded and the hybrid backend every pair returned by      *)
(* get_all_edges() joins two nodes that get_node() returns, and add_edge   *)
(* with an absent endpoint leaves get_all_edges() as it was.               *)
(***************************************************************************)
C1_NoDanglingEdge ==
    backend \in {"sqlite", "hybrid"} =>
        /\ \A e \in Edges(cur) : Exists(cur, e[1]) /\ Exists(cur, e[2])
        /\ \A s \in Ids, t \in Ids :
              (~Exists(cur, s) \/ ~Exists(cur, t)) =>
                  Repo_get_all_edges(backend, Repo_add_edge(backend, cur, s, t).st)
                      = Repo_get_all_edges(backend, cur)

C1_Witness ==
    /\ backend = "hybrid"
    /\ Edges(cur) # {}
    /\ \E s \in Ids, t \in Ids :
          LET r == Repo_add_edge(backend, cur, s, t)
          IN  /\ ~Exists(cur, s) /\ Exists(cur, t)
              /\ <<s, t>> \in r.st.db.edges /\ <<s, t>> \notin cur.db.edges
              /\ Edges(r.st) = Edges(cur)

(***************************************************************************)
(* C2.  When delete_node(id) returns true, afterwards no edge of           *)
(* get_all_edges() touches id and no former neighbour lists id among its   *)
(* parents or children.                                                    *)
(***************************************************************************)
C2_DeleteCascades ==
    \A i \in Ids :
        LET r == Repo_delete_node(backend, cur, i)
            former == (Parents(cur, i) \cup Children(cur, i)) \ {i}
        IN  (r.ret = TRUE) =>
                /\ \A e \in Edges(r.st) : e[1] # i /\ e[2] # i
                /\ \A n \in former : i \notin Parents(r.st, n) /\ i \notin Children(r.st, n)

C2_Witness ==
    \E i \in Ids, n \in Ids :
        LET r == Repo_delete_node(backend, cur, i)
        IN  /\ n # i
            /\ i \in Parents(cur, n) /\ i \in Children(cur, n)
            /\ <<i, i>> \in Edges(cur) /\ <<n, n>> \in Edges(cur)
            /\ r.ret = TRUE
            /\ Edges(r.st) = {<<n, n>>}

(***************************************************************************)
(* C3.  On every backend update_node(id, metadata=M) leaves the metadata   *)
(* equal to the previous metadata overridden by M, and update_node(id,     *)
(* content=c) replaces the content and leaves the metadata unchanged.      *)
(***************************************************************************)
C3_UpdateMergesMetadata ==
    \A i \in NodeIds(cur) :
        /\ \A m \in MetaUpdates :
              LET r == Repo_update_node(backend, cur, i, None, Some(m))
              IN  Node(r.st, i).metadata = DictUpdate(Node(cur, i).metadata, m)
        /\ \A c \in ContentInputs :
              LET r == Repo_update_node(backend, cur, i, Some(c), None)
              IN  /\ Node(r.st, i).content = c
                  /\ Node(r.st, i).metadata = Node(cur, i).metadata

(***************************************************************************)
(* C4.  add_node(n) followed by get_node(n.id) returns a node whose id,    *)
(* type, content and metadata are those of n.                              *)
(***************************************************************************)
C4_AddGetRoundTrip ==
    \A n \in NodeInputs :
        Repo_get_node(backend, Repo_add_node(backend, cur, n).st, n.id) = Some(n)

C4_Witness ==
    \E n \in NodeInputs :
        /\ ~Exists(cur, n.id)
        /\ NodeIds(cur) # {}
        /\ Edges(cur) # {}
        /\ n.metadata # EmptyDict
        /\ Node(Repo_add_node(backend, cur, n).st, n.id) = n

(***************************************************************************)
(* C5.  add_node on an id that exists replaces type, content and metadata  *)
(* entirely by the new values and leaves the set of node ids, the node     *)
(* count and the edges (also those touching the node) unchanged.           *)
(***************************************************************************)
C5_AddNodeUpserts ==
    \A n \in NodeInputs :
        Exists(cur, n.id) =>
            LET r == Repo_add_node(backend, cur, n)
            IN  /\ Repo_get_node(backend, r.st, n.id) = Some(n)
                /\ NodeIds(r.st) = NodeIds(cur)
                /\ Repo_get_stats(backend, r.st).total_nodes
                      = Repo_get_stats(backend, cur).total_nodes
                /\ Repo_get_all_edges(backend, r.st) = Repo_get_all_edges(backend, cur)
                /\ \A j \in NodeIds(cur) \ {n.id} : Node(r.st, j) = Node(cur, j)

C5_Witness ==
    \E n \in NodeInputs, j \in Ids :
        LET r == Repo_add_node(backend, cur, n)
        IN  /\ j # n.id
            /\ <<n.id, j>> \in Edges(cur) /\ <<j, n.id>> \in Edges(cur)
            /\ Node(cur, n.id).type # n.type
            /\ Node(cur, n.id).content # n.content
            /\ DOMAIN Node(cur, n.id).metadata = MetaKeys /\ n.metadata = EmptyDict
            /\ Node(r.st, n.id) = n
            /\ Edges(r.st) = Edges(cur)

(***************************************************************************)
(* C6.  update_node and delete_node on an id that is not in the graph      *)
(* return false and change nothing.                                        *)
(***************************************************************************)
C6_AbsentIdIsNoOp ==
    \A i \in Ids :
        ~Exists(cur, i) =>
            /\ Repo_delete_node(backend, cur, i) = Result(cur, FALSE)
            /\ \A c \in ContentArgs, m \in MetaArgs :
                  Repo_update_node(backend, cur, i, c, m) = Result(cur, FALSE)

C6_Witness ==
    \E i \in Ids :
        /\ ~Exists(cur, i)
        /\ NodeIds(cur) # {}
        /\ Edges(cur) # {}
        /\ Repo_delete_node(backend, cur, i).ret = FALSE
        /\ Repo_update_node(backend, cur, i, Some(<<"b">>), None).ret = FALSE

(***************************************************************************)
(* C7.  get_neighbors(id) returns a mapping with both keys parents and     *)
(* children, holding exactly the sources of the edges into id and the      *)
(* targets of the edges out of id; both are present and empty when id has  *)
(* no relations or does not exist.                                         *)
(***************************************************************************)
C7_NeighborsBothKeys ==
    \A i \in Ids :
        LET nb == Repo_get_neighbors(backend, cur, i)
        IN  /\ DOMAIN nb = {"parents", "children"}
            /\ nb["parents"] = {e[1] : e \in {x \in Edges(cur) : x[2] = i}}
            /\ nb["children"] = {e[2] : e \in {x \in Edges(cur) : x[1] = i}}

(***************************************************************************)
(* C8.  find_nodes returns exactly the ids of the nodes whose type equals  *)
(* the type filter (when given) and whose content contains the content     *)
(* filter case-insensitively (when given); with no filter, all node ids.   *)
(***************************************************************************)
Matches(node, f) ==
    /\ ("type" \in DOMAIN f => node.type = f["type"])
    /\ ("content_match" \in DOMAIN f => StrIn(Lower(f["content_match"]), Lower(node.content)))

C8_FindNodesExact ==
    \A f \in FilterInputs :
        Repo_find_nodes(backend, cur, f) = {i \in NodeIds(cur) : Matches(Node(cur, i), f)}

(***************************************************************************)
(* C9.  On every backend get_stats() carries a density equal to            *)
(* total_edges / (total_nodes * (total_nodes - 1)) when total_nodes > 1    *)
(* and to 0 otherwise, for the counts it reports.                          *)
(***************************************************************************)
C9_DensityFormula ==
    LET stats == Repo_get_stats(backend, cur)
        n == stats.total_nodes
        m == stats.total_edges
    IN  /\ "density" \in DOMAIN stats
        /\ RatioEq(stats.density, IF n > 1 THEN Ratio(m, n * (n - 1)) ELSE Zero)

(***************************************************************************)
(* C10.  add_edge(s,t) between existing nodes is idempotent: a second call *)
(* changes nothing, get_all_edges() holds (s,t) exactly once, total_edges  *)
(* grows by exactly one when the edge is new, and (t,s) is not created.    *)
(***************************************************************************)
C10_AddEdgeIdempotent ==
    \A s \in NodeIds(cur), t \in NodeIds(cur) :
        LET r1 == Repo_add_edge(backend, cur, s, t)
            r2 == Repo_add_edge(backend, r1.st, s, t)
            isNew == <<s, t>> \notin Edges(cur)
        IN  /\ r2.st = r1.st
            /\ CopiesIn(<<s, t>>, Repo_get_all_edges(backend, r2.st)) = 1
            /\ Repo_get_stats(backend, r2.st).total_edges
                  = Repo_get_stats(backend, cur).total_edges + (IF isNew THEN 1 ELSE 0)
            /\ (<<t, s>> \in Edges(r2.st)) = (<<t, s>> \in Edges(cur) \/ s = t)

C10_Witness ==
    \E s \in Ids, t \in Ids :
        LET r1 == Repo_add_edge(backend, cur, s, t)
            r2 == Repo_add_edge(backend, r1.st, s, t)
        IN  /\ s # t
            /\ Exists(cur, s) /\ Exists(cur, t)
            /\ Edges(cur) = {}
            /\ Edges(r2.st) = {<<s, t>>}
            /\ Repo_get_stats(backend, r2.st).total_edges = 1

(***************************************************************************)
(* C11.  add_knowledge(node, parents) tolerates invalid parents: after it  *)
(* the node exists, the edge (p, node.id) exists for every listed parent p *)
(* that is a node, and for a listed parent that is not a node no edge is   *)
(* created and no node with that id appears.  The node is added before the *)
(* edges, so the node itself counts as a node when it is its own parent.   *)
(***************************************************************************)
C11_AddKnowledgeInvalidParent ==
    \A node \in KnowledgeInputs, parents \in ParentInputs :
        LET r == KnowledgeGraph_add_knowledge(backend, cur, node, parents)
            listed == {parents[k] : k \in DOMAIN parents}
            valid == {p \in listed : p = node.id \/ Exists(cur, p)}
        IN  /\ Exists(r.st, node.id)
            /\ \A p \in valid : <<p, node.id>> \in Edges(r.st)
            /\ \A p \in listed \ valid :
                  /\ ~Exists(r.st, p)
                  /\ \A e \in Edges(r.st) : e[1] # p /\ e[2] # p
            /\ Edges(r.st) = Edges(cur) \cup {<<p, node.id>> : p \in valid}
            /\ {i \in ParentIds : Exists(r.st, i)}
                  = {i \in ParentIds : Exists(cur, i)} \cup {node.id}

C11_Witness ==
    \E node \in KnowledgeInputs, parents \in ParentInputs :
        LET r == KnowledgeGraph_add_knowledge(backend, cur, node, parents)
        IN  /\ Len(parents) = 2
            /\ ~Exists(cur, node.id)
            /\ Exists(cur, parents[2]) /\ ~Exists(cur, parents[1])
            /\ parents[1] # node.id
            /\ Edges(cur) = {}
            /\ Edges(r.st) = {<<parents[2], node.id>>}
            /\ Exists(r.st, node.id) /\ ~Exists(r.st, parents[1])

(***************************************************************************)
(* C12.  get_context(id, depth) returns, for an id that exists, the node   *)
(* with exactly its direct parents and its direct children and with empty  *)
(* ancestors and descendants, the same for every depth; for an id that     *)
(* does not exist it returns an empty mapping.                             *)
(***************************************************************************)
C12_GetContextDirectOnly ==
    \A i \in ParentIds, depth \in DepthInputs :
        LET ctx == KnowledgeGraph_get_context(backend, cur, i, depth)
        IN  IF Exists(cur, i)
            THEN /\ ctx.node = Node(cur, i)
                 /\ ctx.parents = {e[1] : e \in {x \in Edges(cur) : x[2] = i}}
                 /\ ctx.children = {e[2] : e \in {x \in Edges(cur) : x[1] = i}}
                 /\ ctx.ancestors = {} /\ ctx.descendants = {}
                 /\ \A other \in DepthInputs :
                       KnowledgeGraph_get_context(backend, cur, i, other) = ctx
            ELSE ctx = EmptyDict

C12_Witness ==
    \E i \in Ids, p \in Ids :
        LET ctx == KnowledgeGraph_get_context(backend, cur, i, MaxDepth)
        IN  /\ p # i
            /\ Edges(cur) = {<<p, p>>, <<p, i>>, <<i, i>>}
            /\ ctx.parents = {p, i} /\ ctx.children = {i}
            /\ ctx.ancestors = {}
            /\ KnowledgeGraph_get_context(backend, cur, "c", MaxDepth) = EmptyDict

(***************************************************************************)
(* C13.  On the hybrid backend, after every completed mutating call the    *)
(* content store (SQLite) and the structure store (Neo4j) hold the same    *)
(* set of node ids and the same set of edges.                              *)
(***************************************************************************)
C13_HybridStoresInSync ==
    backend = "hybrid" =>
        /\ DOMAIN db.nodes = DOMAIN neo4j.nodes
        /\ GraphDatabase_get_all_edges(db) = BagToSet(Neo4j_get_all_edges(cur))

(***************************************************************************)
(* C14.  Hybrid delete_node(id) issues the delete to the content store and *)
(* to the structure store whatever the first reports, and returns true     *)
(* exactly when at least one of the two reported a deletion.               *)
(***************************************************************************)
C14_HybridDeleteEither ==
    backend = "hybrid" =>
        \A i \in Ids :
            LET r == Repo_delete_node(backend, cur, i)
                sq_del == db.writable /\ i \in DOMAIN db.nodes
                ne_del == i \in DOMAIN neo4j.nodes
            IN  /\ r.ret = (sq_del \/ ne_del)
                /\ i \notin DOMAIN r.st.neo4j.nodes
                /\ \A e \in DOMAIN r.st.neo4j.rels : e[1] # i /\ e[2] # i
                /\ db.writable => i \notin DOMAIN r.st.db.nodes

C14_Witness ==
    /\ backend = "hybrid"
    /\ db.writable
    /\ \E i \in Ids, j \in Ids :
          /\ i \notin DOMAIN db.nodes /\ i \in DOMAIN neo4j.nodes
          /\ j \in DOMAIN db.nodes /\ j \notin DOMAIN neo4j.nodes
          /\ BagIn(<<i, i>>, neo4j.rels)
          /\ Repo_delete_node(backend, cur, i).ret = TRUE
          /\ Repo_delete_node(backend, cur, j).ret = TRUE
          /\ Repo_delete_node(backend, cur, i).st.neo4j.rels = EmptyBag

(***************************************************************************)
(* C15.  On the embedded backend, when the durable store refuses the write *)
(* of add_node, add_edge, update_node or delete_node, the call changes the *)
(* in-memory graph as it does when the write succeeds, update_node and     *)
(* delete_node on a node of the graph return true, the durable store is    *)
(* left as it was, and get_node / get_all_edges answer from memory.        *)
(***************************************************************************)
C15_EmbeddedWriteFailureKeepsMemory ==
    (backend = "sqlite" /\ ~db.writable) =>
        LET healthy == [cur EXCEPT !.db.writable = TRUE]
        IN  /\ \A n \in FaultNodeInputs :
                  LET r == Repo_add_node(backend, cur, n)
                  IN  /\ r.st.graph = Repo_add_node(backend, healthy, n).st.graph
                      /\ r.st.db = db
                      /\ Repo_get_node(backend, r.st, n.id) = Some(n)
            /\ \A s \in Ids, t \in Ids :
                  LET r == Repo_add_edge(backend, cur, s, t)
                  IN  /\ r.st.graph = Repo_add_edge(backend, healthy, s, t).st.graph
                      /\ r.st.db = db
                      /\ (Exists(cur, s) /\ Exists(cur, t)) => <<s, t>> \in Edges(r.st)
            /\ \A i \in Ids, c \in FaultContentArgs :
                  LET r == Repo_update_node(backend, cur, i, c, None)
                  IN  /\ r.st.graph = Repo_update_node(backend, healthy, i, c, None).st.graph
                      /\ r.st.db = db
                      /\ Exists(cur, i) => (r.ret = TRUE /\ Node(r.st, i).content = Val(c))
            /\ \A i \in Ids :
                  LET r == Repo_delete_node(backend, cur, i)
                  IN  /\ r.st.graph = Repo_delete_node(backend, healthy, i).st.graph
                      /\ r.st.db = db
                      /\ Exists(cur, i) => (r.ret = TRUE /\ ~Exists(r.st, i))

C15_Witness ==
    /\ backend = "sqlite"
    /\ ~db.writable
    /\ \E i \in Ids, j \in Ids, c \in FaultContentArgs :
          LET u == Repo_update_node(backend, cur, i, c, None)
              d == Repo_delete_node(backend, cur, j)
          IN  /\ i # j
              /\ Exists(cur, i) /\ Exists(cur, j)
              /\ i \in DOMAIN db.nodes /\ j \in DOMAIN db.nodes
              /\ u.ret = TRUE
              /\ Node(u.st, i).content = Val(c)
              /\ Val(GraphDatabase_get_node(u.st.db, i)).content # Val(c)
              /\ d.ret = TRUE
              /\ ~Exists(d.st, j) /\ j \in DOMAIN d.st.db.nodes

(***************************************************************************)
(* C16.  get_repository() keeps returning the same repository instance     *)
(* until reset(); reset() closes every connection the current instance     *)
(* holds, whatever its backend type, before it discards the instance; the  *)
(* next get_repository() constructs an instance never handed out before.   *)
(***************************************************************************)
C16_SingletonUntilReset ==
    [][LET old == factory.instance
           new == factory'.instance
       IN  /\ (~IsNone(old) /\ ~IsNone(new)) => new = old
           /\ (~IsNone(old) /\ IsNone(new)) =>
                  \A c \in factory'.open : c.owner # Val(old).id
           /\ (IsNone(old) /\ ~IsNone(new)) =>
                  /\ Val(new).id > factory.created
                  /\ Construct(Val(new)) \subseteq factory'.open]_vars

(***************************************************************************)
(* C17.  For every graph, start id and direction, nodes_visited of         *)
(* traverse_graph for max_depth d+1 is at least nodes_visited for          *)
(* max_depth d, and nodes_visited never exceeds the number of nodes of the *)
(* graph.                                                                  *)
(***************************************************************************)
C17_TraverseMonotoneBounded ==
    \A ord \in Orders, start \in AnalysisIds, direction \in Directions, d \in DepthArgs :
        LET kg == KG(backend, cur, ord)
            n == traverse_graph(kg, start, d, direction, EmptyDict).nodes_visited
        IN  /\ traverse_graph(kg, start, d + 1, direction, EmptyDict).nodes_visited >= n
            /\ n <= Repo_get_stats(backend, cur).total_nodes

(***************************************************************************)
(* C18.  traverse_graph with a node_filter reports the same nodes_visited  *)
(* as without one, and its nodes_by_depth is the unfiltered nodes_by_depth *)
(* restricted, depth by depth, to the nodes that match the filter: a node  *)
(* that does not match never hides the nodes reachable through it.         *)
(***************************************************************************)
C18_FilterNeverPrunes ==
    \A ord \in Orders, start \in AnalysisIds, direction \in Directions, d \in DepthArgs :
        LET kg == KG(backend, cur, ord)
            plain == traverse_graph(kg, start, d, direction, EmptyDict)
        IN  \A f \in AnalysisFilters :
                LET filtered == traverse_graph(kg, start, d, direction, f)
                    kept(k) == SelectSeq(plain.nodes_by_depth[k],
                                         LAMBDA e : Matches(Node(cur, e.id), f))
                IN  /\ filtered.nodes_visited = plain.nodes_visited
                    /\ DOMAIN filtered.nodes_by_depth
                          = {k \in DOMAIN plain.nodes_by_depth : kept(k) # <<>>}
                    /\ \A k \in DOMAIN filtered.nodes_by_depth :
                          filtered.nodes_by_depth[k] = kept(k)

C18_Witness ==
    \E ord \in Orders :
        LET kg == KG(backend, cur, ord)
            f == [k \in {"type"} |-> "guideline"]
            plain == traverse_graph(kg, "a", MaxDepth, "forward", EmptyDict)
            filtered == traverse_graph(kg, "a", MaxDepth, "forward", f)
        IN  /\ Edges(cur) = {<<"a", "b">>, <<"b", "c">>}
            /\ plain.nodes_visited = 3 /\ filtered.nodes_visited = 3
            /\ DOMAIN plain.nodes_by_depth = {0, 1, 2}
            /\ DOMAIN filtered.nodes_by_depth = {2}
            /\ filtered.nodes_by_depth[2][1].id = "c"
            /\ filtered.paths = << <<"a", "b", "c">> >>

(***************************************************************************)
(* C19.  find_shortest_path(x, x) returns [x].  For x # y it returns a     *)
(* path exactly when y is reachable from x within max_depth hops with the  *)
(* edges followed in either direction; the path starts at x, ends at y,    *)
(* joins consecutive ids by an edge in some direction and has the minimum  *)
(* number of hops.  Otherwise it returns None.                             *)
(***************************************************************************)
Adjacent(st, u, v) == <<u, v>> \in Edges(st) \/ <<v, u>> \in Edges(st)

RECURSIVE Within(_, _, _)
Within(st, x, k) ==
    IF k <= 0 THEN {x}
    ELSE LET W == Within(st, x, k - 1)
         IN  W \cup {v \in AnalysisIds : \E u \in W : Adjacent(st, u, v)}

C19_ShortestPath ==
    \A ord \in Orders, x \in AnalysisIds, y \in AnalysisIds, d \in DepthArgs :
        LET r == find_shortest_path(KG(backend, cur, ord), x, y, d)
            p == Val(r)
        IN  IF x = y THEN r = Some(<<x>>)
            ELSE IF y \in Within(cur, x, d)
            THEN /\ ~IsNone(r)
                 /\ Head(p) = x /\ p[Len(p)] = y
                 /\ \A k \in 1..(Len(p) - 1) : Adjacent(cur, p[k], p[k + 1])
                 /\ Len(p) - 1 <= d
                 /\ \A k \in 0..(Len(p) - 2) : y \notin Within(cur, x, k)
            ELSE IsNone(r)

C19_Witness ==
    \E ord \in Orders :
        LET kg == KG(backend, cur, ord)
        IN  /\ Edges(cur) = {<<"a", "b">>, <<"c", "b">>}
            /\ find_shortest_path(kg, "a", "c", MaxDepth) = Some(<<"a", "b", "c">>)
            /\ find_shortest_path(kg, "a", "c", 1) = None
            /\ find_shortest_path(kg, "a", "a", 0) = Some(<<"a">>)

(***************************************************************************)
(* C20.  find_all_paths(source, target, max_depth, max_paths) returns at   *)
(* most max_paths pairwise distinct paths, each a simple path from source  *)
(* to target along successor edges with at most max_depth hops; when the   *)
(* graph has no more than max_paths such paths it returns all of them.     *)
(***************************************************************************)
SimplePaths(st, source, target, max_depth) ==
    {p \in UNION {[1..n -> AnalysisIds] : n \in 1..Cardinality(AnalysisIds)} :
        /\ p[1] = source /\ p[Len(p)] = target
        /\ Len(p) - 1 <= max_depth
        /\ \A i \in DOMAIN p, j \in DOMAIN p : i # j => p[i] # p[j]
        /\ \A k \in 1..(Len(p) - 1) : <<p[k], p[k + 1]>> \in Edges(st)}

C20_AllPaths ==
    \A ord \in Orders, source \in AnalysisIds, target \in AnalysisIds,
       d \in DepthArgs, max_paths \in PathLimits :
        LET paths == find_all_paths(KG(backend, cur, ord), source, target, d, max_paths)
            such == SimplePaths(cur, source, target, d)
        IN  /\ Len(paths) <= max_paths
            /\ \A i \in DOMAIN paths, j \in DOMAIN paths : i # j => paths[i] # paths[j]
            /\ Range(paths) \subseteq such
            /\ Cardinality(such) <= max_paths => Range(paths) = such

C20_Witness ==
    \E ord \in Orders :
        LET kg == KG(backend, cur, ord)
        IN  /\ Edges(cur) = {<<"a", "b">>, <<"b", "c">>, <<"a", "c">>, <<"c", "a">>}
            /\ Range(find_all_paths(kg, "a", "c", MaxDepth, MaxPaths))
                  = {<<"a", "c">>, <<"a", "b", "c">>}
            /\ Len(find_all_paths(kg, "a", "c", MaxDepth, 1)) = 1
            /\ find_all_paths(kg, "a", "c", 1, MaxPaths) = << <<"a", "c">> >>

(***************************************************************************)
(* C21.  detect_communities partitions the node set: every node that       *)
(* get_all_nodes returns is in exactly one community, no community is      *)
(* empty, and two nodes share a community exactly when some path joins     *)
(* them with the edges followed in either direction.                       *)
(***************************************************************************)
C21_CommunitiesPartition ==
    \A ord \in Orders :
        LET communities == detect_communities(KG(backend, cur, ord))
            nodes == {n.id : n \in Repo_get_all_nodes(backend, cur)}
            home(n) == {i \in DOMAIN communities : n \in Range(communities[i])}
        IN  /\ \A n \in nodes :
                  /\ Cardinality(home(n)) = 1
                  /\ \A i \in home(n) :
                        Cardinality({k \in DOMAIN communities[i] : communities[i][k] = n}) = 1
            /\ \A i \in DOMAIN communities : communities[i] # <<>>
            /\ \A n \in nodes, m \in nodes :
                  (home(n) = home(m)) <=> (m \in Within(cur, n, Cardinality(AnalysisIds)))

C21_Witness ==
    \E ord \in Orders :
        LET communities == detect_communities(KG(backend, cur, ord))
        IN  /\ Edges(cur) = {<<"c", "a">>}
            /\ Exists(cur, "b")
            /\ Len(communities) = 2
            /\ {Range(communities[i]) : i \in DOMAIN communities} = {{"a", "c"}, {"b"}}

(***************************************************************************)
(* C22.  Every entry returned by predict_missing_links is a pair of two    *)
(* distinct nodes with no edge between them in either direction, each      *)
(* unordered pair appears at most once, and its score (held in             *)
(* thousandths) lies within [0, 1] inclusive.                              *)
(***************************************************************************)
C22_PredictedLinks ==
    \A ord \in Orders, min_score \in {0, 300, 1000}, max_predictions \in PathLimits :
        LET predictions == predict_missing_links(KG(backend, cur, ord), min_score,
                                                 max_predictions)
            nodes == {n.id : n \in Repo_get_all_nodes(backend, cur)}
        IN  /\ \A k \in DOMAIN predictions :
                  LET p == predictions[k]
                  IN  /\ p.source \in nodes /\ p.target \in nodes
                      /\ p.source # p.target
                      /\ <<p.source, p.target>> \notin Edges(cur)
                      /\ <<p.target, p.source>> \notin Edges(cur)
                      /\ 0 <= p.score /\ p.score <= 1000
            /\ \A k \in DOMAIN predictions, l \in DOMAIN predictions :
                  k # l => {predictions[k].source, predictions[k].target}
                               # {predictions[l].source, predictions[l].target}

C22_Witness ==
    \E ord \in Orders :
        LET predictions == predict_missing_links(KG(backend, cur, ord), 300, MaxPaths)
        IN  /\ Edges(cur) = {<<"a", "c">>, <<"c", "b">>, <<"c", "c">>}
            /\ Len(predictions) = 1
            /\ {predictions[1].source, predictions[1].target} = {"a", "b"}
            /\ predictions[1].score = 600

(***************************************************************************)
(* C23.  semantic_search returns at most limit results in non-increasing   *)
(* score order, every returned result has a score greater than 0, each     *)
(* node id appears at most once in the results, and when node_types is     *)
(* given every result's type is one of the requested types.                *)
(***************************************************************************)
C23_SemanticSearch ==
    \A ord \in Orders, query \in {<<>>, <<"b">>, <<"a">>, <<"B", "a">>},
       node_types \in {None, Some(<<"concept">>), Some(<<"guideline", "concept">>),
                       Some(<<"concept", "concept">>)},
       limit \in 0..MaxLimit, include_metadata \in BOOLEAN :
        LET results == semantic_search(KG(backend, cur, ord), query, node_types, limit,
                                       include_metadata)
        IN  /\ Len(results) <= limit
            /\ \A k \in DOMAIN results :
                  /\ results[k].score > 0
                  /\ k > 1 => results[k - 1].score >= results[k].score
                  /\ ~IsNone(node_types) => results[k].type \in Range(Val(node_types))
            /\ \A k \in DOMAIN results, l \in DOMAIN results :
                  k # l => results[k].id # results[l].id

(***************************************************************************)
(* The waterfall tracker: one WaterfallTracker instance (cli.py,           *)
(* mcp_server.py) and the three calls that change a feature's stage.  The  *)
(* stage history and the notes grow without limit in the program; the      *)
(* guards stop the tracker at MaxHistory history entries and MaxNotes      *)
(* notes, counted over all its features.                                   *)
(***************************************************************************)
FeatureIds == {"f1", "f2"}

RECURSIVE Recorded(_, _)
Recorded(features, field) ==
    IF DOMAIN features = {} THEN 0
    ELSE LET f == CHOOSE x \in DOMAIN features : TRUE
         IN  Len(features[f][field]) + Recorded(Pop(features, f), field)

start_feature ==
    \E feature_id \in FeatureIds :
        /\ waterfall' = WaterfallTracker_start_feature(waterfall, feature_id)
        /\ UNCHANGED <<backend, graph, db, neo4j, factory, migration, calls>>

advance_feature ==
    \E feature_id \in FeatureIds :
        /\ Recorded(waterfall.features, "stage_history") < MaxHistory
        /\ waterfall' = WaterfallTracker_advance_feature(waterfall, feature_id).w
        /\ UNCHANGED <<backend, graph, db, neo4j, factory, migration, calls>>

regress_feature ==
    \E feature_id \in FeatureIds, reason \in {"", "defect"} :
        /\ reason # "" => Recorded(waterfall.features, "notes") < MaxNotes
        /\ waterfall' = WaterfallTracker_regress_feature(waterfall, feature_id, reason).w
        /\ UNCHANGED <<backend, graph, db, neo4j, factory, migration, calls>>

WaterfallInit == Init /\ backend = "sqlite"
WaterfallNext == start_feature \/ advance_feature \/ regress_feature
WaterfallSpec == WaterfallInit /\ [][WaterfallNext]_vars

StageIndex(stage) == CHOOSE i \in DOMAIN STAGE_ORDER : STAGE_ORDER[i] = stage

RECURSIVE Subsequence(_, _)
Subsequence(p, q) ==
    IF p = <<>> THEN TRUE
    ELSE IF q = <<>> THEN FALSE
    ELSE IF Head(p) = Head(q) THEN Subsequence(Tail(p), Tail(q))
    ELSE Subsequence(p, Tail(q))

(***************************************************************************)
(* C24.  The waterfall tracker never skips a stage: a successful           *)
(* advance_feature moves current_stage to the immediately following stage  *)
(* of STAGE_ORDER and a successful regress_feature to the immediately      *)
(* preceding one, leaving every other feature alone; a feature in          *)
(* COMPLETED has the six earlier stages in its record of completed stages, *)
(* in order; advance at COMPLETED, regress at ANALYSIS and either call on  *)
(* an unknown feature id return false and change nothing.                  *)
(***************************************************************************)
C24_NoStageSkipped ==
    \A feature_id \in FeatureIds \cup {"f3"}, reason \in {"", "defect"} :
        LET known == feature_id \in DOMAIN waterfall.features
            stage == StageIndex(waterfall.features[feature_id].current_stage)
            adv == WaterfallTracker_advance_feature(waterfall, feature_id)
            reg == WaterfallTracker_regress_feature(waterfall, feature_id, reason)
            Others(w) == [f \in DOMAIN w.features \ {feature_id} |-> w.features[f]]
        IN  /\ IF known /\ stage < Len(STAGE_ORDER)
               THEN /\ adv.ret
                    /\ DOMAIN adv.w.features = DOMAIN waterfall.features
                    /\ StageIndex(adv.w.features[feature_id].current_stage) = stage + 1
                    /\ Others(adv.w) = Others(waterfall)
               ELSE ~adv.ret /\ adv.w = waterfall
            /\ IF known /\ stage > 1
               THEN /\ reg.ret
                    /\ DOMAIN reg.w.features = DOMAIN waterfall.features
                    /\ StageIndex(reg.w.features[feature_id].current_stage) = stage - 1
                    /\ Others(reg.w) = Others(waterfall)
               ELSE ~reg.ret /\ reg.w = waterfall
            /\ (known /\ waterfall.features[feature_id].current_stage = "completed")
                   => Subsequence(SubSeq(STAGE_ORDER, 1, Len(STAGE_ORDER) - 1),
                                  waterfall.features[feature_id].stage_history)

C24_Witness ==
    /\ DOMAIN waterfall.features = {"f1", "f2"}
    /\ waterfall.features["f1"].current_stage = "completed"
    /\ waterfall.features["f2"].current_stage = "design"
    /\ WaterfallTracker_regress_feature(waterfall, "f2", "").ret
    /\ ~WaterfallTracker_advance_feature(waterfall, "f1").ret

(***************************************************************************)
(* C29.  For every tracked feature, stage_history lists exactly the stages *)
(* that precede current_stage in STAGE_ORDER, each once and in order.      *)
(***************************************************************************)
C29_HistoryIsPrefix ==
    \A feature_id \in DOMAIN waterfall.features :
        waterfall.features[feature_id].stage_history
            = SubSeq(STAGE_ORDER, 1,
                     StageIndex(waterfall.features[feature_id].current_stage) - 1)

(***************************************************************************)
(* C25.  Hybrid update_node writes the content store first; only when that *)
(* update succeeded does it re-read the merged node and write it to the    *)
(* structure store, after which the structure store's type, content and    *)
(* metadata for that node equal the content store's; when the              *)
(* content-store update fails nothing is written to the structure store    *)
(* and false is returned.                                                  *)
(***************************************************************************)
C25_HybridUpdateOrder ==
    backend = "hybrid" =>
        \A i \in Ids, content \in ContentArgs, metadata \in MetaArgs :
            LET u == GraphDatabase_update_node(db, i, content, metadata)
                r == Repo_update_node(backend, cur, i, content, metadata)
            IN  /\ r.st.db = u.db
                /\ r.ret = u.ret
                /\ IF u.ret
                   THEN /\ Neo4j_get_node(r.st, i) = Hybrid_get_node(r.st, i)
                        /\ ~IsNone(Neo4j_get_node(r.st, i))
                        /\ \A j \in DOMAIN neo4j.nodes \ {i} :
                              j \in DOMAIN r.st.neo4j.nodes
                                  /\ r.st.neo4j.nodes[j] = neo4j.nodes[j]
                        /\ r.st.neo4j.rels = neo4j.rels
                   ELSE r.st.neo4j = neo4j /\ r.ret = FALSE

C25_Witness ==
    /\ backend = "hybrid"
    /\ \E i \in Ids, j \in Ids, metadata \in MetaArgs \ {None} :
          LET ok == Repo_update_node(backend, cur, i, Some(<<"b">>), metadata)
              failed == Repo_update_node(backend, cur, j, Some(<<"b">>), metadata)
          IN  /\ i \in DOMAIN db.nodes /\ i \in DOMAIN neo4j.nodes
              /\ db.writable
              /\ ok.ret = TRUE
              /\ Neo4j_get_node(cur, i) # Neo4j_get_node(ok.st, i)
              /\ Val(Neo4j_get_node(ok.st, i)).metadata = Val(metadata)
              /\ j \notin DOMAIN db.nodes /\ j \in DOMAIN neo4j.nodes
              /\ failed.ret = FALSE

(***************************************************************************)
(* C26.  On the embedded backend the durable store holds exactly the       *)
(* in-memory graph: a new repository instance constructed over the same    *)
(* durable store has the same node ids with the same attributes, the same  *)
(* edge set, the same get_neighbors results and the same get_stats counts  *)
(* as the live instance.                                                   *)
(***************************************************************************)
C26_ReloadEqualsLive ==
    backend = "sqlite" =>
        LET fresh == [cur EXCEPT !.graph = NetworkX_load_from_db(db)]
        IN  /\ \A i \in Ids : Repo_get_node(backend, fresh, i) = Repo_get_node(backend, cur, i)
            /\ Repo_get_all_nodes(backend, fresh) = Repo_get_all_nodes(backend, cur)
            /\ Repo_get_all_edges(backend, fresh) = Repo_get_all_edges(backend, cur)
            /\ \A i \in Ids :
                  Repo_get_neighbors(backend, fresh, i) = Repo_get_neighbors(backend, cur, i)
            /\ Repo_get_stats(backend, fresh).total_nodes
                   = Repo_get_stats(backend, cur).total_nodes
            /\ Repo_get_stats(backend, fresh).total_edges
                   = Repo_get_stats(backend, cur).total_edges
            /\ Repo_get_stats(backend, fresh).node_types
                   = Repo_get_stats(backend, cur).node_types

(***************************************************************************)
(* migrate_to_neo4j.py: migrate(), one step per repository call.           *)
(* migration is the position in the script (pc), the two lists read from   *)
(* SQLite with the items not yet attempted, the loop variable count, the   *)
(* counts printed when a loop ends (synced) and the calls made on the      *)
(* Neo4j component with their outcome (calls).  A call on the Neo4j        *)
(* component raises or not as the driver decides: Neo4jRepository catches  *)
(* nothing.  The SQLite file exists before the script runs, with at most   *)
(* MaxEdgeRows edge rows, also rows whose endpoints have no node row.      *)
(***************************************************************************)
MigrationInit ==
    /\ backend \in DatabaseType
    /\ graph = DiGraph
    /\ neo4j = [nodes |-> EmptyDict, rels |-> EmptyBag]
    /\ factory = PersistenceFactory_get_repository(ModuleImport, backend).f
    /\ waterfall = WaterfallTracker
    /\ migration = [pc |-> "idle", nodes |-> <<>>, edges |-> <<>>, count |-> 0, synced |-> EmptyDict, calls |-> <<>>]
    /\ calls = [c \in Clients |-> Idle]
    /\ \E present \in SUBSET Ids, rows \in SUBSET (Ids \X Ids) :
          /\ Cardinality(rows) <= MaxEdgeRows
          /\ db = [nodes |-> [i \in present |->
                                 [id |-> i, type |-> "concept", content |-> <<"b">>,
                                  metadata |-> JsonDumps(EmptyDict)]],
                   edges |-> rows, writable |-> TRUE]

(* Lines 16-42: force the hybrid type, reset the factory, build the        *)
(* repository (which fails when Neo4j is not reachable) and read both      *)
(* lists, in the order SQLite returns them.                                *)
migrate_start ==
    /\ migration.pc = "idle"
    /\ backend' = "hybrid"
    /\ \E connected \in BOOLEAN :
          IF connected
          THEN /\ factory' = PersistenceFactory_get_repository(
                                 PersistenceFactory_reset(factory), "hybrid").f
               /\ \E nodes \in Lists(GraphDatabase_get_all_nodes(db), Cardinality(DOMAIN db.nodes)),
                     edges \in Lists(GraphDatabase_get_all_edges(db), Cardinality(db.edges)) :
                     /\ Range(nodes) = GraphDatabase_get_all_nodes(db)
                     /\ Range(edges) = GraphDatabase_get_all_edges(db)
                     /\ migration' = [migration EXCEPT !.pc = "nodes", !.nodes = nodes,
                                                       !.edges = edges, !.count = 0]
          ELSE /\ factory' = PersistenceFactory_reset(factory)
               /\ migration' = [migration EXCEPT !.pc = "failed"]
    /\ UNCHANGED <<graph, db, neo4j, waterfall, calls>>

(* Mutation: count is incremented before the call on the Neo4j component.  *)
migrate_node_count_first ==
    /\ migration.pc = "nodes"
    /\ IF migration.nodes = <<>>
       THEN /\ migration' = [migration EXCEPT !.pc = "edges", !.count = 0,
                                              !.synced = Put(@, "nodes", migration.count)]
            /\ UNCHANGED neo4j
       ELSE LET node_data == Head(migration.nodes)
                nd == NodeData(node_data.id, node_data.type, node_data.content,
                               node_data.metadata)
            IN  \E raises \in BOOLEAN :
                    /\ neo4j' = IF raises THEN neo4j ELSE Neo4j_add_node(cur, nd).st.neo4j
                    /\ migration' =
                          [migration EXCEPT
                              !.nodes = Tail(@),
                              !.count = @ + 1,
                              !.calls = Append(@, [item |-> nd.id, raised |-> raises])]
    /\ UNCHANGED <<backend, graph, db, factory, waterfall, calls>>

(* Lines 46-66: one iteration of the node loop, or its end.                *)
migrate_node ==
    /\ migration.pc = "nodes"
    /\ IF migration.nodes = <<>>
       THEN /\ migration' = [migration EXCEPT !.pc = "edges", !.count = 0,
                                              !.synced = Put(@, "nodes", migration.count)]
            /\ UNCHANGED neo4j
       ELSE LET node_data == Head(migration.nodes)
                nd == NodeData(node_data.id, node_data.type, node_data.content,
                               node_data.metadata)
            IN  \E raises \in BOOLEAN :
                    /\ neo4j' = IF raises THEN neo4j ELSE Neo4j_add_node(cur, nd).st.neo4j
                    /\ migration' =
                          [migration EXCEPT
                              !.nodes = Tail(@),
                              !.count = IF raises THEN @ ELSE @ + 1,
                              !.calls = Append(@, [item |-> nd.id, raised |-> raises])]
    /\ UNCHANGED <<backend, graph, db, factory, waterfall, calls>>

(* Lines 69-80: one iteration of the edge loop, or its end.                *)
migrate_edge ==
    /\ migration.pc = "edges"
    /\ IF migration.edges = <<>>
       THEN /\ migration' = [migration EXCEPT !.pc = "done",
                                              !.synced = Put(@, "edges", migration.count)]
            /\ UNCHANGED neo4j
       ELSE LET source == Head(migration.edges)[1]
                target == Head(migration.edges)[2]
            IN  \E raises \in BOOLEAN :
                    /\ neo4j' = IF raises THEN neo4j
                                ELSE Neo4j_add_edge(cur, source, target).st.neo4j
                    /\ migration' =
                          [migration EXCEPT
                              !.edges = Tail(@),
                              !.count = IF raises THEN @ ELSE @ + 1,
                              !.calls = Append(@, [item |-> <<source, target>>,
                                                   raised |-> raises])]
    /\ UNCHANGED <<backend, graph, db, factory, waterfall, calls>>

MigrationNext == migrate_start \/ migrate_node \/ migrate_edge
MigrationSpec == MigrationInit /\ [][MigrationNext]_vars

(***************************************************************************)
(* C27.  The migration attempts every node of the row store and then every *)
(* edge, in that order; a write that raises for one item does not stop the *)
(* later items from being attempted, and the reported synced count of      *)
(* nodes (and of edges) equals the number of items whose write did not     *)
(* raise.                                                                  *)
(***************************************************************************)
C27_MigrationBestEffort ==
    LET made == migration.calls
        node_calls == SelectSeq(made, LAMBDA c : c.item \in Ids)
        edge_calls == SelectSeq(made, LAMBDA c : c.item \notin Ids)
        NotRaised(q) == Len(SelectSeq(q, LAMBDA c : ~c.raised))
    IN  /\ made = node_calls \o edge_calls
        /\ migration.pc \in {"edges", "done"} =>
               /\ Len(node_calls) = Cardinality(DOMAIN db.nodes)
               /\ {c.item : c \in Range(node_calls)} = DOMAIN db.nodes
               /\ migration.synced["nodes"] = NotRaised(node_calls)
        /\ migration.pc = "done" =>
               /\ Len(edge_calls) = Cardinality(db.edges)
               /\ {c.item : c \in Range(edge_calls)} = db.edges
               /\ migration.synced["edges"] = NotRaised(edge_calls)

C27_Witness ==
    /\ migration.pc = "done"
    /\ Len(migration.calls) = Cardinality(Ids) + MaxEdgeRows
    /\ migration.calls[1].raised /\ ~migration.calls[2].raised
    /\ migration.calls[3].raised /\ ~migration.calls[4].raised
    /\ migration.synced["nodes"] = 1
    /\ migration.synced["edges"] = 1

(* The ids at most k hops from x under the direction: successor edges,     *)
(* predecessor edges, or both.                                             *)
Hop(st, u, v, direction) ==
    \/ direction \in {"forward", "both"} /\ <<u, v>> \in Edges(st)
    \/ direction \in {"backward", "both"} /\ <<v, u>> \in Edges(st)

RECURSIVE WithinHops(_, _, _, _)
WithinHops(st, x, k, direction) ==
    IF k < 0 THEN {}
    ELSE IF k = 0 THEN {x}
    ELSE LET W == WithinHops(st, x, k - 1, direction)
         IN  W \cup {v \in AnalysisIds : \E u \in W : Hop(st, u, v, direction)}

ConcurrentInit ==
    LET node == NodeData("a", "concept", <<"b">>, EmptyDict)
        st == Hybrid_add_node(State(DiGraph,
                                    [nodes |-> EmptyDict, edges |-> {}, writable |-> TRUE],
                                    [nodes |-> EmptyDict, rels |-> EmptyBag]), node).st
    IN  /\ backend = "hybrid"
        /\ graph = st.graph
        /\ db = st.db
        /\ neo4j = st.neo4j
        /\ factory = PersistenceFactory_get_repository(ModuleImport, backend).f
        /\ waterfall = WaterfallTracker
        /\ migration = [pc |-> "idle", nodes |-> <<>>, edges |-> <<>>, count |-> 0, synced |-> EmptyDict, calls |-> <<>>]
        /\ calls = [c \in Clients |-> Idle]

(* success = self.sqlite.update_node(node_id, content, metadata)           *)
hybrid_update_sqlite ==
    \E c \in Clients, content \in ContentArgs, metadata \in MetaArgs :
        LET u == GraphDatabase_update_node(db, "a", content, metadata)
        IN  /\ calls[c].pc = "idle"
            /\ db' = u.db
            /\ calls' = [calls EXCEPT ![c] =
                             IF u.ret THEN [Idle EXCEPT !.pc = "get_node", !.node_id = Some("a")]
                             ELSE Idle]
            /\ UNCHANGED <<backend, graph, neo4j, factory, waterfall, migration>>

(* updated_node = self.get_node(node_id)                                   *)
hybrid_update_get_node ==
    \E c \in Clients :
        LET updated_node == Hybrid_get_node(cur, Val(calls[c].node_id))
        IN  /\ calls[c].pc = "get_node"
            /\ calls' = [calls EXCEPT ![c] =
                             IF ~IsNone(updated_node)
                             THEN [@ EXCEPT !.pc = "add_node", !.updated_node = updated_node]
                             ELSE Idle]
            /\ UNCHANGED <<backend, graph, db, neo4j, factory, waterfall, migration>>

(* self.neo4j.add_node(updated_node); return success                       *)
hybrid_update_add_node ==
    \E c \in Clients :
        /\ calls[c].pc = "add_node"
        /\ neo4j' = Neo4j_add_node(cur, Val(calls[c].updated_node)).st.neo4j
        /\ calls' = [calls EXCEPT ![c] = Idle]
        /\ UNCHANGED <<backend, graph, db, factory, waterfall, migration>>

ConcurrentNext == hybrid_update_sqlite \/ hybrid_update_get_node \/ hybrid_update_add_node
ConcurrentSpec == ConcurrentInit /\ [][ConcurrentNext]_vars

(***************************************************************************)
(* C30.  When two hybrid update_node calls on the same node run            *)
(* interleaved, then after both have returned the structure store's        *)
(* content and metadata for that node equal the content store's.           *)
(***************************************************************************)
C30_InterleavedUpdatesAgree ==
    (\A c \in Clients : calls[c].pc = "idle") =>
        /\ Val(Neo4j_get_node(cur, "a")).content = Val(Hybrid_get_node(cur, "a")).content
        /\ Val(Neo4j_get_node(cur, "a")).metadata = Val(Hybrid_get_node(cur, "a")).metadata

====
